---- MODULE Spec2Model ----
(***************************************************************************)
(* A model of the JoyAndCo product crawler (src/crawler.py): the fetcher,   *)
(* the image validator, the field extractor, the feed serializers and the  *)
(* pipeline driver main().                                                  *)
(*                                                                         *)
(* Strings are sequences of tokens.  A token is a character or a short     *)
(* run of characters that the code never looks inside ("https:" is the     *)
(* six characters h-t-t-p-s-colon, "/" is one slash), so that startswith,  *)
(* split, replace, strip and the regular expressions of the code are       *)
(* computed on the text and not assumed.                                   *)
(***************************************************************************)
EXTENDS Integers, Sequences, FiniteSets, TLC

\* ------------------------------------------------------------------ bounds
\* Longest image URL, in tokens, handed to the validator on its own.
MaxUrlLen == 6

\* --------------------------------------------------------- text primitives
\* Python's None in a slot that otherwise holds a string.
None == <<"None">>

\* Python truthiness of an optional string: None and '' are falsy.
Falsy(s) == s = None \/ s = <<>>

SeqsUpTo(S, n) == UNION {[1..k -> S] : k \in 0..n}

\* str.startswith(p)
StartsWith(s, p) == Len(s) >= Len(p) /\ SubSeq(s, 1, Len(p)) = p

\* str.endswith(p)
EndsWith(s, p) == Len(s) >= Len(p) /\ SubSeq(s, Len(s) - Len(p) + 1, Len(s)) = p

\* The start of the first occurrence of old in s, 0 when there is none.
FindFirst(s, old) ==
  LET hits == {i \in 1..(Len(s) - Len(old) + 1) : SubSeq(s, i, i + Len(old) - 1) = old}
  IN  IF hits = {} THEN 0 ELSE CHOOSE i \in hits : \A j \in hits : i <= j

\* A mutation of ReplaceFirst: the last occurrence is the one replaced.
ReplaceLast(s, old, new) ==
  LET hits == {i \in 1..(Len(s) - Len(old) + 1) : SubSeq(s, i, i + Len(old) - 1) = old}
      i == IF hits = {} THEN 0 ELSE CHOOSE k \in hits : \A j \in hits : j <= k
  IN  IF i = 0 THEN s
      ELSE SubSeq(s, 1, i - 1) \o new \o SubSeq(s, i + Len(old), Len(s))

\* str.replace(old, new, 1)
ReplaceFirst(s, old, new) ==
  LET i == FindFirst(s, old)
  IN  IF i = 0 THEN s
      ELSE SubSeq(s, 1, i - 1) \o new \o SubSeq(s, i + Len(old), Len(s))

\* -------------------------------------------------------------- constants
BASE_URL == <<"https:", "/", "/", "joyandco", ".", "com">>

HttpPrefix == <<"http:", "/", "/">>
HttpsPrefix == <<"https:", "/", "/">>

\* ------------------------------------------------------- the HEAD request
\* What requests.head can do: answer with a status and a content-type
\* header, raise a requests.exceptions.RequestException (timeout, refused
\* connection), or raise something else.
ContentTypes ==
  { <<"image", "/", "jpeg">>, <<"IMAGE", "/", "png">>, <<"text", "/", "html">>, <<>> }

Statuses == {200, 204, 404}

HeadOutcomes ==
  [kind : {"response"}, status : Statuses, ctype : ContentTypes]
    \cup {[kind |-> "RequestException", status |-> 0, ctype |-> <<>>],
          [kind |-> "Exception", status |-> 0, ctype |-> <<>>]}

\* str.lower(), token by token.
LowerToken(t) ==
  CASE t = "IMAGE" -> "image"
    [] t = "Sold" -> "sold"
    [] t = "OUT" -> "out"
    [] OTHER -> t
Lower(s) == [i \in 1..Len(s) |-> LowerToken(s[i])]

\* ----------------------------------------------------- the image validator
ErrNoUrl == <<"No image URL provided">>
ErrNotHttps == <<"Image URL must use HTTPS protocol">>
ErrStatus == <<"HTTP error accessing image">>
ErrNotImage == <<"URL doesn't point to an image">>
ErrOther == <<"Image validation error">>

\* A mutation of EnsureHttps: http:// is rewritten at its last occurrence.
EnsureHttpsReplaceLast(image_url) ==
  IF StartsWith(image_url, HttpPrefix)
    THEN [coerced |-> TRUE, url |-> ReplaceLast(image_url, HttpPrefix, HttpsPrefix)]
  ELSE IF StartsWith(image_url, <<"/", "/">>)
    THEN [coerced |-> TRUE, url |-> <<"https:">> \o image_url]
  ELSE IF ~StartsWith(image_url, HttpsPrefix)
    THEN IF StartsWith(image_url, <<"/">>)
           THEN [coerced |-> TRUE, url |-> BASE_URL \o image_url]
           ELSE [coerced |-> FALSE, url |-> image_url]
  ELSE [coerced |-> TRUE, url |-> image_url]

\* The "Ensure HTTPS" block: the URL coerced to HTTPS, or coerced = FALSE
\* when the function returns there.
EnsureHttps(image_url) ==
  IF StartsWith(image_url, HttpPrefix)
    THEN [coerced |-> TRUE, url |-> ReplaceFirst(image_url, HttpPrefix, HttpsPrefix)]
  ELSE IF StartsWith(image_url, <<"/", "/">>)
    THEN [coerced |-> TRUE, url |-> <<"https:">> \o image_url]
  ELSE IF ~StartsWith(image_url, HttpsPrefix)
    THEN IF StartsWith(image_url, <<"/">>)
           THEN [coerced |-> TRUE, url |-> BASE_URL \o image_url]
           ELSE [coerced |-> FALSE, url |-> image_url]
  ELSE [coerced |-> TRUE, url |-> image_url]

\* A mutation of CheckHead: a HEAD request that raised fails the URL.
CheckHeadPessimistic(url, head) ==
  IF head.kind \in {"RequestException", "Exception"}
    THEN [ok |-> FALSE, url |-> url, error |-> ErrOther, heads |-> 1]
  ELSE IF head.status # 200
    THEN [ok |-> FALSE, url |-> url, error |-> ErrStatus, heads |-> 1]
  ELSE IF ~StartsWith(Lower(head.ctype), <<"image", "/">>)
    THEN [ok |-> FALSE, url |-> url, error |-> ErrNotImage, heads |-> 1]
  ELSE [ok |-> TRUE, url |-> url, error |-> None, heads |-> 1]

\* The accessibility check on the HTTPS URL, given what the HEAD request did.
CheckHead(url, head) ==
  IF head.kind = "RequestException"
    THEN [ok |-> TRUE, url |-> url, error |-> None, heads |-> 1]
  ELSE IF head.kind = "Exception"
    THEN [ok |-> FALSE, url |-> url, error |-> ErrOther, heads |-> 1]
  ELSE IF head.status # 200
    THEN [ok |-> FALSE, url |-> url, error |-> ErrStatus, heads |-> 1]
  ELSE IF ~StartsWith(Lower(head.ctype), <<"image", "/">>)
    THEN [ok |-> FALSE, url |-> url, error |-> ErrNotImage, heads |-> 1]
  ELSE [ok |-> TRUE, url |-> url, error |-> None, heads |-> 1]

\* validate_and_fix_image_url(image_url), with the outcome of the HEAD
\* request it may issue; heads counts the requests issued.
validate_and_fix_image_url(image_url, head) ==
  IF Falsy(image_url)
    THEN [ok |-> FALSE, url |-> None, error |-> ErrNoUrl, heads |-> 0]
  ELSE LET fixed == EnsureHttps(image_url)
       IN  IF ~fixed.coerced
             THEN [ok |-> FALSE, url |-> fixed.url, error |-> ErrNotHttps, heads |-> 0]
             ELSE CheckHead(fixed.url, head)

\* The k-th HEAD request of a run is answered by the k-th outcome of the
\* tape; a tape shorter than the run repeats.
HeadAt(tape, k) == tape[((k - 1) % Len(tape)) + 1]

FallbackOptions ==
  << BASE_URL \o <<"/", "images", "/", "default-product-500x500", ".", "jpg">>,
     BASE_URL \o <<"/", "assets", "/", "default-product", ".", "jpg">>,
     <<"https:", "/", "/", "via.placeholder.com", "/", "500x500", "/", "CCCCCC", "/",
       "FFFFFF", "?", "text=Product+Image">> >>

FinalFallback ==
  <<"https:", "/", "/", "via.placeholder.com", "/", "500x500", "/", "CCCCCC", "/",
    "FFFFFF", "?", "text=No+Image">>

\* The loop of get_fallback_image_for_meta from option i on; used counts the
\* HEAD requests issued before it.
RECURSIVE FallbackFrom(_, _, _)
\* A mutation of FallbackStep: the options after the one that validated are
\* validated as well.
FallbackStepKeepsOn(i, tape, used, r) ==
  IF r.ok THEN [url |-> r.url, used |-> FallbackFrom(i + 1, tape, used + r.heads).used]
          ELSE FallbackFrom(i + 1, tape, used + r.heads)

\* What the loop does with the validator's answer r for option i.
FallbackStep(i, tape, used, r) ==
  IF r.ok THEN [url |-> r.url, used |-> used + r.heads]
          ELSE FallbackFrom(i + 1, tape, used + r.heads)

FallbackFrom(i, tape, used) ==
  IF i > Len(FallbackOptions)
    THEN [url |-> FinalFallback, used |-> used]
    ELSE FallbackStep(i, tape, used,
           validate_and_fix_image_url(FallbackOptions[i], HeadAt(tape, used + 1)))

\* get_fallback_image_for_meta()
get_fallback_image_for_meta(tape, used) == FallbackFrom(1, tape, used)

\* ------------------------------------------------------ the field extractor
IsSpace(t) == t = " "
IsDigit(t) == t \in {"0", "1", "2", "9"}

\* str.strip()
Strip(s) ==
  LET keep == {i \in 1..Len(s) : ~IsSpace(s[i])}
  IN  IF keep = {} THEN <<>>
      ELSE SubSeq(s, CHOOSE i \in keep : \A j \in keep : i <= j,
                     CHOOSE i \in keep : \A j \in keep : j <= i)

\* The last index j >= i - 1 with s[i..j] all satisfying the digit test.
DigitRunEnd(s, i) ==
  LET js == {j \in (i - 1)..Len(s) : \A k \in i..j : IsDigit(s[k])}
  IN  CHOOSE j \in js : \A m \in js : m <= j

\* The end of the greedy match of \d+\.?\d* starting at the digit s[i].
NumberEnd(s, i) ==
  LET d == DigitRunEnd(s, i)
  IN  IF d < Len(s) /\ s[d + 1] = "." THEN DigitRunEnd(s, d + 2) ELSE d

\* re.findall(r'\d+\.?\d*', s)[0], or None when the list is empty.
FirstNumber(s) ==
  LET starts == {i \in 1..Len(s) : IsDigit(s[i])}
  IN  IF starts = {} THEN None
      ELSE LET i == CHOOSE a \in starts : \A b \in starts : a <= b
           IN  SubSeq(s, i, NumberEnd(s, i))

\* The price-selector loops: the first number of the first element, in
\* selector and document order, whose stripped text holds one.
RECURSIVE PriceFromSelectors(_, _)
PriceFromSelectors(els, i) ==
  IF i > Len(els) THEN None
  ELSE IF FirstNumber(Strip(els[i])) # None THEN FirstNumber(Strip(els[i]))
  ELSE PriceFromSelectors(els, i + 1)

IsSep(t) == t \in {":", " ", "'", "\""}
IsCurrency(t) == t \in {"AED", "USD", "EUR"}

\* The last index j >= i - 1 with s[i..j] all separators (spaces only when
\* spacesOnly).
SepRunEnd(s, i, spacesOnly) ==
  LET js == {j \in (i - 1)..Len(s) :
               \A k \in i..j : IF spacesOnly THEN IsSpace(s[k]) ELSE IsSep(s[k])}
  IN  CHOOSE j \in js : \A m \in js : m <= j

\* re.search(keyword + r'[\'":\s]+(\d+\.?\d*)', html, re.IGNORECASE):
\* group(1) of the leftmost match, None without a match.  The keyword and
\* currency tokens stand for the word in any letter case.
KeywordPrice(s, keyword) ==
  LET ok(i) == /\ s[i] = keyword
               /\ SepRunEnd(s, i + 1, FALSE) >= i + 1
               /\ SepRunEnd(s, i + 1, FALSE) < Len(s)
               /\ IsDigit(s[SepRunEnd(s, i + 1, FALSE) + 1])
      hits == {i \in 1..Len(s) : ok(i)}
  IN  IF hits = {} THEN None
      ELSE LET i == CHOOSE a \in hits : \A b \in hits : a <= b
               n == SepRunEnd(s, i + 1, FALSE) + 1
           IN  SubSeq(s, n, NumberEnd(s, n))

\* re.search(r'(?:AED|USD|EUR)\s*(\d+\.?\d*)', html)
CurrencyThenPrice(s) ==
  LET ok(i) == /\ IsCurrency(s[i])
               /\ SepRunEnd(s, i + 1, TRUE) < Len(s)
               /\ IsDigit(s[SepRunEnd(s, i + 1, TRUE) + 1])
      hits == {i \in 1..Len(s) : ok(i)}
  IN  IF hits = {} THEN None
      ELSE LET i == CHOOSE a \in hits : \A b \in hits : a <= b
               n == SepRunEnd(s, i + 1, TRUE) + 1
           IN  SubSeq(s, n, NumberEnd(s, n))

\* re.search(r'(\d+\.?\d*)\s*(?:AED|USD|EUR)', html): only the greedy span of
\* the number can be followed by the currency, so no shorter span matches.
PriceThenCurrency(s) ==
  LET ok(i) == /\ IsDigit(s[i])
               /\ SepRunEnd(s, NumberEnd(s, i) + 1, TRUE) < Len(s)
               /\ IsCurrency(s[SepRunEnd(s, NumberEnd(s, i) + 1, TRUE) + 1])
      hits == {i \in 1..Len(s) : ok(i)}
  IN  IF hits = {} THEN None
      ELSE LET i == CHOOSE a \in hits : \A b \in hits : a <= b
           IN  SubSeq(s, i, NumberEnd(s, i))

\* "if matches and matches.group(1)": the match of this pattern, else what
\* the later patterns give.
FirstMatch(a, b) == IF a # None THEN a ELSE b

\* The price_patterns loop over the raw markup.
PriceFromPatterns(html) ==
  FirstMatch(KeywordPrice(html, "price"),
    FirstMatch(KeywordPrice(html, "amount"),
      FirstMatch(CurrencyThenPrice(html), PriceThenCurrency(html))))

DefaultPrice == <<"9", "9", ".", "0", "0">>

\* "if not price:" -- the price found so far, else the next source.
OrElse(price, next) == IF ~Falsy(price) THEN price ELSE next

\* The price block of extract_product_data.
ExtractPrice(page) ==
  OrElse(OrElse(PriceFromSelectors(page.priceEls, 1), PriceFromPatterns(page.markup)),
         DefaultPrice)

\* soup.title.text.strip() if soup.title else ""
ExtractTitle(page) == IF page.title = None THEN <<>> ELSE Strip(page.title)

\* The description block: the first selector whose element has text, else
\* the title.
RECURSIVE DescriptionFrom(_, _)
DescriptionFrom(els, i) ==
  IF i > Len(els) THEN <<>>
  ELSE IF Strip(els[i]) # <<>> THEN Strip(els[i]) ELSE DescriptionFrom(els, i + 1)

ExtractDescription(page) == OrElse(DescriptionFrom(page.descEls, 1), ExtractTitle(page))

\* url.split('/')[-1]
LastSegment(url) ==
  LET slashes == {i \in 1..Len(url) : url[i] = "/"}
  IN  IF slashes = {} THEN url
      ELSE SubSeq(url, (CHOOSE i \in slashes : \A j \in slashes : j <= i) + 1, Len(url))

\* url.split('/')[-2], for a url holding a '/'
SecondLastSegment(url) ==
  LET slashes == {i \in 1..Len(url) : url[i] = "/"}
      last == CHOOSE i \in slashes : \A j \in slashes : j <= i
  IN  LastSegment(SubSeq(url, 1, last - 1))

\* re.sub(r'\.[^/.]+$', '', s)
StripExtension(s) ==
  LET dots == {i \in 1..Len(s) : s[i] = "."}
  IN  IF dots = {} THEN s
      ELSE LET d == CHOOSE i \in dots : \A j \in dots : j <= i
           IN  IF d < Len(s) /\ \A k \in (d + 1)..Len(s) : s[k] # "/"
                 THEN SubSeq(s, 1, d - 1) ELSE s

\* "Generate ID from URL"
ProductId(url) ==
  StripExtension(IF LastSegment(url) = <<>> THEN SecondLastSegment(url)
                                           ELSE LastSegment(url))

\* ---- images
\* A JSON number where a string is expected (a value of JSON-LD that is
\* neither a string nor null).
JsonNumber == <<"#number">>

HasToken(s, t) == \E i \in 1..Len(s) : s[i] = t

\* s contains p as a substring.
Contains(s, p) == FindFirst(s, p) # 0

SchemeTokens == {"http:", "https:", "data:", "ftp:"}

\* urljoin(BASE_URL, c) for a c that starts neither with '/' nor with
\* http:// or https://, holding no dot segment, '//', query or fragment.
UrlJoinBase(c) ==
  IF c = <<>> THEN BASE_URL
  ELSE IF c[1] \in SchemeTokens /\ c[1] # "https:" THEN c
  ELSE IF c[1] = "https:"
    THEN IF Len(c) >= 2 /\ c[2] = "/" THEN BASE_URL \o Tail(c)
                                      ELSE BASE_URL \o <<"/">> \o Tail(c)
  ELSE BASE_URL \o <<"/">> \o c

\* "Convert to absolute URL"
Absolutize(c) ==
  IF StartsWith(c, <<"/">>) THEN BASE_URL \o c
  ELSE IF ~(StartsWith(c, HttpPrefix) \/ StartsWith(c, HttpsPrefix)) THEN UrlJoinBase(c)
  ELSE c

\* The candidate a JSON-LD block adds: a Product's image, a string or the
\* first item of a list.
JsonLdImage(b) ==
  IF b.parse = "dict" /\ b.type = "Product" /\ b.image.t \in {"str", "list_str", "list_num"}
    THEN << [source |-> "json-ld",
             url |-> IF b.image.t = "list_num" THEN JsonNumber ELSE b.image.s] >>
    ELSE <<>>

RECURSIVE JsonLdImages(_, _)
JsonLdImages(blocks, i) ==
  IF i > Len(blocks) THEN <<>>
  ELSE JsonLdImage(blocks[i]) \o JsonLdImages(blocks, i + 1)

\* src and not src.endswith('.svg') and not 'placeholder' in src.lower()
UsableSrc(src) ==
  /\ ~Falsy(src)
  /\ ~EndsWith(src, <<".", "svg">>)
  /\ ~HasToken(Lower(src), "placeholder")

RECURSIVE SelectorImages(_, _)
SelectorImages(els, i) ==
  IF i > Len(els) THEN <<>>
  ELSE (IF UsableSrc(els[i].src)
          THEN << [source |-> "selector", url |-> els[i].src] >> ELSE <<>>)
       \o (IF UsableSrc(els[i].dataSrc)
             THEN << [source |-> "data-src", url |-> els[i].dataSrc] >> ELSE <<>>)
       \o SelectorImages(els, i + 1)

RECURSIVE GeneralImages(_, _)
GeneralImages(srcs, i) ==
  IF i > Len(srcs) THEN <<>>
  ELSE (IF /\ UsableSrc(srcs[i])
           /\ ~HasToken(Lower(srcs[i]), "logo")
           /\ \/ HasToken(Lower(srcs[i]), "product")
              \/ HasToken(Lower(srcs[i]), "item")
              \/ Contains(Lower(srcs[i]), <<"/", "uploads", "/">>)
          THEN << [source |-> "general-search", url |-> srcs[i]] >> ELSE <<>>)
       \o GeneralImages(srcs, i + 1)

\* image_candidates, in the order the five tiers append to it.
ImageCandidates(page) ==
  (IF ~Falsy(page.ogImage) THEN << [source |-> "og:image", url |-> page.ogImage] >> ELSE <<>>)
  \o (IF ~Falsy(page.twitterImage)
        THEN << [source |-> "twitter:image", url |-> page.twitterImage] >> ELSE <<>>)
  \o JsonLdImages(page.jsonld, 1)
  \o SelectorImages(page.selImages, 1)
  \o GeneralImages(page.allImages, 1)

\* The validation loop over image_candidates from candidate i on.  A
\* candidate that is no string raises AttributeError at startswith.
RECURSIVE ValidateCandidates(_, _, _, _)
\* What the loop does with the validator's answer r for candidate i.
CandidateStep(cands, i, tape, used, r) ==
  IF r.ok
    THEN [raised |-> FALSE, url |-> r.url, source |-> cands[i].source,
          used |-> used + r.heads]
    ELSE ValidateCandidates(cands, i + 1, tape, used + r.heads)

ValidateCandidates(cands, i, tape, used) ==
  IF i > Len(cands)
    THEN [raised |-> FALSE, url |-> None, source |-> "", used |-> used]
  ELSE IF cands[i].url = JsonNumber
    THEN [raised |-> TRUE, url |-> None, source |-> cands[i].source, used |-> used]
  ELSE CandidateStep(cands, i, tape, used,
         validate_and_fix_image_url(Absolutize(cands[i].url), HeadAt(tape, used + 1)))

\* "If no valid image found, use fallback"
WithFallback(f) == [raised |-> FALSE, url |-> f.url, source |-> "fallback", used |-> f.used]

\* v is what the validation loop left.
OrFallback(v, tape) ==
  IF v.raised \/ ~Falsy(v.url) THEN v
  ELSE WithFallback(get_fallback_image_for_meta(tape, v.used))

\* The image block: the first candidate that validates, else the fallback.
ExtractImage(page, tape, used) ==
  OrFallback(ValidateCandidates(ImageCandidates(page), 1, tape, used), tape)

\* ---- availability
\* Tier 1, the JSON-LD loop from block i on: "out", "in", "none" when no
\* block decides, "raise" when the availability is no string.
RECURSIVE JsonLdAvailability(_, _)
JsonLdAvailability(blocks, i) ==
  IF i > Len(blocks) THEN "none"
  ELSE LET b == blocks[i]
       IN  IF b.parse = "dict" /\ b.type = "Product" /\ b.offers.t = "dict_num"
             THEN "raise"
           ELSE IF b.parse = "dict" /\ b.type = "Product" /\ b.offers.t = "dict_str"
                   /\ HasToken(b.offers.s, "OutOfStock")
             THEN "out"
           ELSE IF b.parse = "dict" /\ b.type = "Product" /\ b.offers.t = "dict_str"
                   /\ HasToken(b.offers.s, "InStock")
             THEN "in"
           ELSE JsonLdAvailability(blocks, i + 1)

InStockText == <<"in", "stock">>
OutOfStockText == <<"out", "of", "stock">>

stock_phrases ==
  << [phrase |-> <<"out", "of", "stock">>, status |-> OutOfStockText],
     [phrase |-> <<"sold", "out">>, status |-> OutOfStockText],
     [phrase |-> <<"un", "available">>, status |-> OutOfStockText],
     [phrase |-> <<"currently", "un", "available">>, status |-> OutOfStockText],
     [phrase |-> <<"back", "in", "stock", "soon">>, status |-> OutOfStockText],
     [phrase |-> <<"in", "stock">>, status |-> InStockText],
     [phrase |-> <<"available", "for", "purchase">>, status |-> InStockText],
     [phrase |-> <<"ships", "immediately">>, status |-> InStockText] >>

\* Tier 3, the loop over stock_phrases from phrase i on: every phrase found
\* in some product-context element assigns its status.
RECURSIVE PhraseAvailability(_, _, _)
PhraseAvailability(els, i, availability) ==
  IF i > Len(stock_phrases) THEN availability
  ELSE PhraseAvailability(els, i + 1,
         IF \E e \in 1..Len(els) : Contains(Lower(els[e]), stock_phrases[i].phrase)
           THEN stock_phrases[i].status ELSE availability)

\* A mutation of ExtractAvailability: without a JSON-LD answer the status
\* starts as out of stock.
ExtractAvailabilityPessimistic(page) ==
  LET tier1 == IF JsonLdAvailability(page.jsonld, 1) = "in" THEN InStockText
               ELSE OutOfStockText
      tier2 == IF page.soldOut THEN OutOfStockText ELSE tier1
  IN  PhraseAvailability(page.stockEls, 1, tier2)

\* The availability block, its three tiers run one after the other.
ExtractAvailability(page) ==
  LET tier1 == IF JsonLdAvailability(page.jsonld, 1) = "out" THEN OutOfStockText
               ELSE InStockText
      tier2 == IF page.soldOut THEN OutOfStockText ELSE tier1
  IN  PhraseAvailability(page.stockEls, 1, tier2)

\* ---- brand
DefaultBrand == <<"Joy and Co">>

RECURSIVE JsonLdBrand(_, _)
JsonLdBrand(blocks, i) ==
  IF i > Len(blocks) THEN DefaultBrand
  ELSE LET b == blocks[i]
       IN  IF b.parse = "dict" /\ b.type = "Product"
              /\ b.brand.t \in {"dict_name", "str"}
             THEN b.brand.s
             ELSE JsonLdBrand(blocks, i + 1)

\* soup.find(og:brand) or soup.find(name=brand), then JSON-LD, then default.
ExtractBrand(page) ==
  LET brand_meta == IF page.ogBrand # None THEN page.ogBrand ELSE page.nameBrand
  IN  IF ~Falsy(brand_meta) THEN brand_meta ELSE JsonLdBrand(page.jsonld, 1)

\* ---- the record
Currency == <<"AED">>
Condition == <<"new">>

\* The product_data dictionary.
ProductData(url, page, image_url) ==
  [id |-> ProductId(url),
   title |-> ExtractTitle(page),
   description |-> ExtractDescription(page),
   price |-> ExtractPrice(page),
   currency |-> Currency,
   image_link |-> image_url,
   availability |-> ExtractAvailability(page),
   condition |-> Condition,
   link |-> url,
   brand |-> ExtractBrand(page)]

\* The function from the image block on, image being what that block left.
AfterImage(url, page, image) ==
  IF image.raised
    THEN [raised |-> TRUE, exc |-> "AttributeError", value |-> <<>>, used |-> image.used]
  ELSE IF JsonLdAvailability(page.jsonld, 1) = "raise"
    THEN [raised |-> TRUE, exc |-> "TypeError", value |-> <<>>, used |-> image.used]
  ELSE [raised |-> FALSE, exc |-> "",
        value |-> << ProductData(url, page, image.url) >>, used |-> image.used]

\* extract_product_data(url, html_content): html is <<>> for None and
\* <<page>> for a body; value is <<>> for None and <<record>> for a record;
\* raised tells that an exception left the function.  tape answers the HEAD
\* requests, used counts those issued before and after the call.
extract_product_data(url, html, tape, used) ==
  IF html = <<>> \/ html[1].empty
    THEN [raised |-> FALSE, exc |-> "", value |-> <<>>, used |-> used]
  ELSE IF \E i \in 1..Len(html[1].jsonld) : html[1].jsonld[i].parse = "empty"
    THEN [raised |-> TRUE, exc |-> "TypeError", value |-> <<>>, used |-> used]
  ELSE AfterImage(url, html[1], ExtractImage(html[1], tape, used))

\* ------------------------------------------------- the Meta batch validator
\* batch_validate_images_for_meta from product i on: each record keeps its
\* place and gets the validator's URL or the fallback image.
RECURSIVE BatchValidateFrom(_, _, _, _)
\* A mutation of UseFallback: the record without a usable image is left out
\* of validated_products.
UseFallbackDrops(ps, i, tape, f) ==
  BatchValidateFrom(SubSeq(ps, 1, i - 1) \o SubSeq(ps, i + 1, Len(ps)), i, tape, f.used)

\* product['image_link'] = fallback, f being what get_fallback_image_for_meta gave.
UseFallback(ps, i, tape, f) ==
  BatchValidateFrom([ps EXCEPT ![i].image_link = f.url], i + 1, tape, f.used)

\* What the loop does with the validator's answer r for product i.
BatchStep(ps, i, tape, used, r) ==
  IF r.ok
    THEN BatchValidateFrom([ps EXCEPT ![i].image_link = r.url], i + 1, tape, used + r.heads)
    ELSE UseFallback(ps, i, tape, get_fallback_image_for_meta(tape, used + r.heads))

BatchValidateFrom(ps, i, tape, used) ==
  IF i > Len(ps) THEN [products |-> ps, used |-> used]
  ELSE IF Falsy(ps[i].image_link)
    THEN UseFallback(ps, i, tape, get_fallback_image_for_meta(tape, used))
  ELSE BatchStep(ps, i, tape, used,
         validate_and_fix_image_url(ps[i].image_link, HeadAt(tape, used + 1)))

batch_validate_images_for_meta(ps, tape, used) == BatchValidateFrom(ps, 1, tape, used)

\* ================================================================== state
VARIABLES
  pc,            \* where main (or the function under test) stands
  excel,         \* product_urls.xlsx as pandas finds it
  origin,        \* what the site answers for each URL during this run
  tape,          \* what the HEAD requests of this run are answered
  heads,         \* HEAD requests issued so far
  product_links, \* the manifest as read
  batch_start,   \* main's batch_start
  index,         \* main's index inside the batch
  link,          \* the URL being fetched
  max_retries,   \* get_page_content's max_retries
  retries,       \* get_page_content's retries
  gets,          \* GET requests issued by the current get_page_content call
  outcomes,      \* how each of them ended
  sleeps,        \* the time.sleep calls of the current get_page_content call
  html,          \* what get_page_content returned: <<>> is None
  products,      \* main's products
  product_attempts, \* the per-URL entries of the debug summary
  feeds,         \* the four feed files
  attempted,     \* the feed generators entered in this run
  ioFailed,      \* an open or a write failed while generating a feed
  call           \* the call of a function checked on its own

vars ==
  << pc, excel, origin, tape, heads, product_links, batch_start, index, link,
     max_retries, retries, gets, outcomes, sleeps, html, products,
     product_attempts, feeds, attempted, ioFailed, call >>

\* ------------------------------------------------------------ the fetcher
DefaultMaxRetries == 3
DefaultDelay == 2

\* A mutation of RetryAllowed: the loop runs once more.
RetryAllowedOffByOne(r, m) == r <= m

\* while retries < max_retries
RetryAllowed(r, m) == r < m

\* One pass of get_page_content's loop, the GET ending as outcome tells: the
\* body is returned, or the RequestException is caught and counted.
FetchAttempt(outcome) ==
  /\ pc = "get"
  /\ RetryAllowed(retries, max_retries)
  /\ sleeps' = IF retries > 0
                 THEN Append(sleeps, [before |-> gets + 1, retry |-> retries,
                                      lo |-> DefaultDelay, hi |-> DefaultDelay + 2])
                 ELSE sleeps
  /\ gets' = gets + 1
  /\ outcomes' = Append(outcomes, outcome)
  /\ IF outcome.kind = "ok"
       THEN /\ html' = << outcome.body >>
            /\ pc' = "fetched"
            /\ UNCHANGED retries
       ELSE /\ retries' = retries + 1
            /\ UNCHANGED << html, pc >>

\* The loop ends without a body: "Failed to fetch ... after N retries".
FetchGiveUp ==
  /\ pc = "get"
  /\ ~RetryAllowed(retries, max_retries)
  /\ html' = <<>>
  /\ pc' = "fetched"
  /\ UNCHANGED << retries, gets, outcomes, sleeps >>

\* ------------------------------------------------------- the feed writers
FeedTypes == {"google_csv", "google_xml", "meta_xml", "meta_csv"}

NoFeed == [state |-> "none", rows |-> <<>>]

\* The header-only and zero-item files main writes when it has no record.
Placeholders == [f \in FeedTypes |-> [state |-> "placeholder", rows |-> <<>>]]

Written(ps) == [state |-> "written", rows |-> ps]
Failed == [state |-> "failed", rows |-> <<>>]

\* ElementTree refuses a text that is neither a string nor None.
SerializationFails(ps) == \E i \in 1..Len(ps) : ps[i].brand = JsonNumber

\* ------------------------------------------------------------------ main
batch_size == 50

Min(a, b) == IF a <= b THEN a ELSE b

\* product_links[batch_start:batch_end]
Batch(links, bs) == SubSeq(links, bs + 1, Min(bs + batch_size, Len(links)))

\* read_product_urls_from_excel: the column, or [] when the file cannot be
\* read or has no product_url column.
read_product_urls_from_excel(file) ==
  IF file.readable /\ file.hasColumn THEN file.urls ELSE <<>>

\* main up to the loop: the manifest is read; without URLs the placeholder
\* feeds are written and main returns.
ReadManifest ==
  /\ pc = "start"
  /\ product_links' = read_product_urls_from_excel(excel)
  /\ IF product_links' = <<>>
       THEN feeds' = Placeholders /\ pc' = "done"
       ELSE feeds' = feeds /\ pc' = "loop"
  /\ UNCHANGED << excel, origin, tape, heads, batch_start, index, link, max_retries,
                  retries, gets, outcomes, sleeps, html, products, product_attempts,
                  attempted, ioFailed, call >>

\* The head of the inner loop: the attempt is noted, the inter-request
\* delay is slept when index > 0, get_page_content(link) is entered.
NextLink ==
  /\ pc = "loop"
  /\ batch_start < Len(product_links)
  /\ link' = Batch(product_links, batch_start)[index + 1]
  /\ product_attempts' =
       Append(product_attempts,
              [link |-> link', number |-> batch_start + index + 1, delayed |-> index > 0,
               access |-> "", extraction |-> ""])
  /\ retries' = 0
  /\ gets' = 0
  /\ outcomes' = <<>>
  /\ sleeps' = <<>>
  /\ html' = <<>>
  /\ pc' = "get"
  /\ UNCHANGED << excel, origin, tape, heads, product_links, batch_start, index,
                  max_retries, products, feeds, attempted, ioFailed, call >>

\* What the site answers the next GET of the current call.
OriginOutcome ==
  IF gets < origin[link].fails
    THEN [kind |-> origin[link].error, body |-> origin[link].page]
    ELSE [kind |-> "ok", body |-> origin[link].page]

\* get_page_content(link) as main calls it.
GetPage ==
  /\ \/ FetchAttempt(OriginOutcome)
     \/ FetchGiveUp
  /\ UNCHANGED << excel, origin, tape, heads, product_links, batch_start, index, link,
                  max_retries, products, product_attempts, feeds, attempted, ioFailed,
                  call >>

\* The loop variables after one more link.
NextBatchStart ==
  IF index + 1 < Len(Batch(product_links, batch_start)) THEN batch_start
  ELSE batch_start + batch_size

NextIndex ==
  IF index + 1 < Len(Batch(product_links, batch_start)) THEN index + 1 ELSE 0

Noted(access, extraction) ==
  [product_attempts EXCEPT ![Len(product_attempts)].access = access,
                           ![Len(product_attempts)].extraction = extraction]

\* A mutation of AfterExtract: the record is put at the head of the list.
AfterExtractPrepends(r) ==
  IF r.raised
    THEN /\ product_attempts' = Noted("ok", "")
         /\ pc' = "crashed"
         /\ heads' = r.used
         /\ UNCHANGED products
  ELSE IF r.value # <<>>
    THEN /\ products' = << r.value[1] >> \o products
         /\ product_attempts' = Noted("ok", "extracted")
         /\ heads' = r.used
              + validate_and_fix_image_url(r.value[1].image_link,
                                           HeadAt(tape, r.used + 1)).heads
         /\ pc' = "loop"
  ELSE /\ product_attempts' = Noted("ok", "failed")
       /\ heads' = r.used
       /\ pc' = "loop"
       /\ UNCHANGED products

\* The loop body once extract_product_data(link, product_html) ended as r
\* tells: an exception leaves main, a record is appended and its image
\* validated for the report, None is noted as a failed extraction.
AfterExtract(r) ==
  IF r.raised
    THEN /\ product_attempts' = Noted("ok", "")
         /\ pc' = "crashed"
         /\ heads' = r.used
         /\ UNCHANGED products
  ELSE IF r.value # <<>>
    THEN /\ products' = Append(products, r.value[1])
         /\ product_attempts' = Noted("ok", "extracted")
         /\ heads' = r.used
              + validate_and_fix_image_url(r.value[1].image_link,
                                           HeadAt(tape, r.used + 1)).heads
         /\ pc' = "loop"
  ELSE /\ product_attempts' = Noted("ok", "failed")
       /\ heads' = r.used
       /\ pc' = "loop"
       /\ UNCHANGED products

\* The body of the inner loop after get_page_content returned.
ProcessPage ==
  /\ pc = "fetched"
  /\ IF html = <<>> \/ html[1].empty
       THEN /\ product_attempts' = Noted("failed", "")
            /\ pc' = "loop"
            /\ UNCHANGED << products, heads >>
       ELSE AfterExtract(extract_product_data(link, html, tape, heads))
  /\ batch_start' = IF pc' = "crashed" THEN batch_start ELSE NextBatchStart
  /\ index' = IF pc' = "crashed" THEN index ELSE NextIndex
  /\ UNCHANGED << excel, origin, tape, product_links, link, max_retries, retries, gets,
                  outcomes, sleeps, html, feeds, attempted, ioFailed, call >>

\* The loops are over: with records the feeds are generated, without any the
\* placeholder feeds are written.
LoopDone ==
  /\ pc = "loop"
  /\ batch_start >= Len(product_links)
  /\ IF products # <<>>
       THEN feeds' = feeds /\ pc' = "generate_csv_feed"
       ELSE feeds' = Placeholders /\ pc' = "report"
  /\ UNCHANGED << excel, origin, tape, heads, product_links, batch_start, index, link,
                  max_retries, retries, gets, outcomes, sleeps, html, products,
                  product_attempts, attempted, ioFailed, call >>

\* generate_csv_feed(products); io tells whether the files could be written.
GenerateCsvFeed ==
  /\ pc = "generate_csv_feed"
  /\ \E io \in BOOLEAN :
       /\ feeds' = [feeds EXCEPT !["google_csv"] = IF io THEN Written(products) ELSE Failed]
       /\ ioFailed' = (ioFailed \/ ~io)
  /\ attempted' = attempted \cup {"google_csv"}
  /\ pc' = "generate_xml_feed"
  /\ UNCHANGED << excel, origin, tape, heads, product_links, batch_start, index, link,
                  max_retries, retries, gets, outcomes, sleeps, html, products,
                  product_attempts, call >>

\* generate_xml_feed(products): generate_meta_xml_feed is called at the end
\* of its try block, after the Google file was written.
GenerateXmlFeed ==
  /\ pc = "generate_xml_feed"
  /\ \E io \in BOOLEAN :
       /\ feeds' = [feeds EXCEPT !["google_xml"] =
                      IF io /\ ~SerializationFails(products)
                        THEN Written(products) ELSE Failed]
       /\ ioFailed' = (ioFailed \/ ~io)
       /\ pc' = IF io /\ ~SerializationFails(products)
                  THEN "generate_meta_xml_feed" ELSE "report"
  /\ attempted' = attempted \cup {"google_xml"}
  /\ UNCHANGED << excel, origin, tape, heads, product_links, batch_start, index, link,
                  max_retries, retries, gets, outcomes, sleeps, html, products,
                  product_attempts, call >>

\* generate_meta_xml_feed(products): the records of the shallow copy are
\* main's records, so the validated image links are written into them;
\* generate_meta_csv_feed is called at the end of its try block.
GenerateMetaXmlFeed ==
  /\ pc = "generate_meta_xml_feed"
  /\ \E io \in {"ok", "makedirs", "write"} :
       \E v \in {batch_validate_images_for_meta(products, tape, heads)} :
           /\ products' = IF io = "makedirs" THEN products ELSE v.products
           /\ heads' = IF io = "makedirs" THEN heads ELSE v.used
           /\ feeds' = [feeds EXCEPT !["meta_xml"] =
                          IF io = "ok" /\ ~SerializationFails(v.products)
                            THEN Written(v.products) ELSE Failed]
           /\ ioFailed' = (ioFailed \/ io # "ok")
           /\ pc' = IF io = "ok" /\ ~SerializationFails(v.products)
                      THEN "generate_meta_csv_feed" ELSE "report"
  /\ attempted' = attempted \cup {"meta_xml"}
  /\ UNCHANGED << excel, origin, tape, product_links, batch_start, index, link,
                  max_retries, retries, gets, outcomes, sleeps, html, product_attempts,
                  call >>

\* generate_meta_csv_feed(validated_products)
GenerateMetaCsvFeed ==
  /\ pc = "generate_meta_csv_feed"
  /\ \E io \in BOOLEAN :
       /\ feeds' = [feeds EXCEPT !["meta_csv"] = IF io THEN Written(products) ELSE Failed]
       /\ ioFailed' = (ioFailed \/ ~io)
  /\ attempted' = attempted \cup {"meta_csv"}
  /\ pc' = "report"
  /\ UNCHANGED << excel, origin, tape, heads, product_links, batch_start, index, link,
                  max_retries, retries, gets, outcomes, sleeps, html, products,
                  product_attempts, call >>

\* The debug summary and the image report, which validates every image
\* link once more; main returns.
Report ==
  /\ pc = "report"
  /\ heads' = heads + Len(products)
  /\ pc' = "done"
  /\ UNCHANGED << excel, origin, tape, product_links, batch_start, index, link,
                  max_retries, retries, gets, outcomes, sleeps, html, products,
                  product_attempts, feeds, attempted, ioFailed, call >>

\* ============================================================ the inputs
\* Two more bounds of the pipeline runs: every manifest of up to MaxShortLen
\* URLs is run, and manifests of batch_size + 1 .. batch_size + MaxOver URLs.
MaxShortLen == 2
MaxOver == 1
\* The longest tape of HEAD outcomes of a pipeline run.
MaxPipeTape == 2

NoJson == [t |-> "absent", s |-> <<>>]

\* A <script type="application/ld+json"> block: parse is "empty" for a
\* block without text (script.string is None), "malformed" for text that is
\* no JSON, "nondict" for JSON that is no object, "dict" for an object.
Block(parse, type, image, offers, brand) ==
  [parse |-> parse, type |-> type, image |-> image, offers |-> offers, brand |-> brand]

EmptyBlock == Block("empty", "absent", NoJson, NoJson, NoJson)
MalformedBlock == Block("malformed", "absent", NoJson, NoJson, NoJson)
ListBlock == Block("nondict", "absent", NoJson, NoJson, NoJson)

\* A page with a title and nothing else the extractor looks for.
BasePage ==
  [empty |-> FALSE, title |-> <<"T">>, priceEls |-> <<>>, markup |-> <<>>,
   descEls |-> <<>>, ogImage |-> None, twitterImage |-> None, jsonld |-> <<>>,
   selImages |-> <<>>, allImages |-> <<>>, soldOut |-> FALSE, stockEls |-> <<>>,
   ogBrand |-> None, nameBrand |-> None]

PageOk ==
  [BasePage EXCEPT !.priceEls = << <<" ", "1", "2", " ">> >>,
                   !.ogImage = <<"http:", "/", "/", "cdn", "/", "a">>]
PageNoTitle == [BasePage EXCEPT !.title = None]
PageEmptyJsonLd == [BasePage EXCEPT !.jsonld = << EmptyBlock >>]
PageBrandNumber ==
  [BasePage EXCEPT !.jsonld =
     << Block("dict", "Product", NoJson, NoJson, [t |-> "dict_name", s |-> JsonNumber]) >>]
PageEmptyBody == [BasePage EXCEPT !.empty = TRUE]

PipelinePages == {PageOk, PageNoTitle, PageEmptyJsonLd, PageBrandNumber, PageEmptyBody}

U1 == BASE_URL \o <<"/", "p", "/", "a", ".", "html">>
U2 == BASE_URL \o <<"/", "p", "/", "b", "/">>
PipelineUrls == {U1, U2}

HeadOk == [kind |-> "response", status |-> 200, ctype |-> <<"image", "/", "jpeg">>]
Head404 == [kind |-> "response", status |-> 404, ctype |-> <<"text", "/", "html">>]
HeadTimeout == [kind |-> "RequestException", status |-> 0, ctype |-> <<>>]

Tapes(S, n) == UNION {[1..k -> S] : k \in 1..n}

Sites == [fails : 0..DefaultMaxRetries, error : {"transport"}, page : PipelinePages]
DefaultSite == [fails |-> 0, error |-> "transport", page |-> PageOk]

Manifests ==
  SeqsUpTo(PipelineUrls, MaxShortLen)
    \cup {[i \in 1..(batch_size + k) |-> IF i % 2 = 1 THEN U1 ELSE U2] : k \in 1..MaxOver}

ExcelFiles ==
  {[readable |-> FALSE, hasColumn |-> FALSE, urls |-> <<>>],
   [readable |-> TRUE, hasColumn |-> FALSE, urls |-> <<>>]}
    \cup {[readable |-> TRUE, hasColumn |-> TRUE, urls |-> m] : m \in Manifests}

Range(s) == {s[i] : i \in 1..Len(s)}

NoCall == [fn |-> "none"]

\* The state main starts from, but for the inputs.
IdleMain ==
  /\ heads = 0
  /\ product_links = <<>>
  /\ batch_start = 0
  /\ index = 0
  /\ retries = 0
  /\ gets = 0
  /\ outcomes = <<>>
  /\ sleeps = <<>>
  /\ html = <<>>
  /\ products = <<>>
  /\ product_attempts = <<>>
  /\ feeds = [f \in FeedTypes |-> NoFeed]
  /\ attempted = {}
  /\ ioFailed = FALSE

\* A run of main: the manifest file, the site and the network are chosen;
\* a URL the manifest does not name has the default site.
Init ==
  /\ pc = "start"
  /\ excel \in ExcelFiles
  /\ origin \in [PipelineUrls -> Sites]
  /\ \A u \in PipelineUrls \ Range(excel.urls) : origin[u] = DefaultSite
  /\ tape \in Tapes({HeadOk, Head404}, MaxPipeTape)
  /\ (Len(excel.urls) = 0 \/ Len(excel.urls) > MaxShortLen) => tape = << HeadOk >>
  /\ IdleMain
  /\ link = <<>>
  /\ max_retries = DefaultMaxRetries
  /\ call = NoCall

Next ==
  \/ ReadManifest
  \/ NextLink
  \/ GetPage
  \/ ProcessPage
  \/ LoopDone
  \/ GenerateCsvFeed
  \/ GenerateXmlFeed
  \/ GenerateMetaXmlFeed
  \/ GenerateMetaCsvFeed
  \/ Report

Spec == Init /\ [][Next]_vars

\* ----------------------------------------------- get_page_content alone
\* The largest max_retries a call is given.
MaxRetriesArg == 4

FetchOutcomes ==
  [kind : {"ok"}, body : {PageOk, PageNoTitle}]
    \cup [kind : {"transport", "http_error"}, body : {PageOk}]

InitFetch ==
  /\ pc = "get"
  /\ excel = [readable |-> FALSE, hasColumn |-> FALSE, urls |-> <<>>]
  /\ origin = [u \in PipelineUrls |-> DefaultSite]
  /\ tape = << HeadOk >>
  /\ IdleMain
  /\ link \in PipelineUrls
  /\ max_retries \in 0..MaxRetriesArg
  /\ call = NoCall

\* One pass of the loop with any outcome of the GET, or the loop's end.
FetchStep ==
  /\ \/ \E outcome \in FetchOutcomes : FetchAttempt(outcome)
     \/ FetchGiveUp
  /\ UNCHANGED << excel, origin, tape, heads, product_links, batch_start, index, link,
                  max_retries, products, product_attempts, feeds, attempted, ioFailed,
                  call >>

NextFetch == FetchStep

SpecFetch == InitFetch /\ [][NextFetch]_vars

\* The loop is sequential code whose GET has a timeout and whose sleep is
\* finite: a pass that can be made is made.
SpecFetchFair == SpecFetch /\ WF_vars(NextFetch)

\* ------------------------------------- validate_and_fix_image_url alone
UrlTokens == {"http:", "https:", "/", "a"}

NoAnswer == [ok |-> FALSE, url |-> None, error |-> None, heads |-> 0]

\* main and the fetcher at rest while one function is called on its own.
IdleRun ==
  /\ pc = "call"
  /\ excel = [readable |-> FALSE, hasColumn |-> FALSE, urls |-> <<>>]
  /\ origin = [u \in PipelineUrls |-> DefaultSite]
  /\ IdleMain
  /\ link = <<>>
  /\ max_retries = DefaultMaxRetries

\* The image URL handed to the validator is None, '' or any text of up to
\* MaxUrlLen tokens.
InitValidate ==
  /\ IdleRun
  /\ tape = << HeadOk >>
  /\ \E u \in {None} \cup SeqsUpTo(UrlTokens, MaxUrlLen) :
       call = [fn |-> "validate_and_fix_image_url", image_url |-> u, head |-> HeadOk,
               done |-> FALSE, out |-> NoAnswer]

\* The call returns; the HEAD request, if it is issued, ends as head tells.
Validate ==
  /\ pc = "call"
  /\ ~call.done
  /\ \E head \in HeadOutcomes :
       \E r \in {validate_and_fix_image_url(call.image_url, head)} :
         /\ call' = [call EXCEPT !.done = TRUE, !.out = r,
                                 !.head = IF r.heads = 0 THEN HeadOk ELSE head]
         /\ heads' = heads + r.heads
  /\ pc' = "returned"
  /\ UNCHANGED << excel, origin, tape, product_links, batch_start, index, link,
                  max_retries, retries, gets, outcomes, sleeps, html, products,
                  product_attempts, feeds, attempted, ioFailed >>

NextValidate == Validate

SpecValidate == InitValidate /\ [][NextValidate]_vars

\* ----------------------------------------------- extract_product_data alone
\* The longest text of a title or of a price element, the longest raw
\* markup, the longest URL path and the longest tape of HEAD outcomes of a
\* call of extract_product_data, in tokens.
MaxTextLen == 2
MaxMarkupLen == 4
MaxPathLen == 4
MaxCallTape == 2

TitleTokens == {" ", "T"}
PriceTokens == {"1", ".", " "}
MarkupTokens == {"price", "amount", "AED", "1", ".", ":", " "}
PathTokens == {"/", "a", "."}

ImageSrcs ==
  { <<"http:", "/", "/", "cdn", "/", "a", ".", "jpg">>,
    <<"https:", "/", "/", "cdn", "/", "a", ".", "jpg">>,
    <<"/", "/", "cdn", "/", "a">>,
    <<"/", "img", "/", "a">>,
    <<"img", "/", "a">>,
    <<"data:", "a">>,
    <<"ftp:", "/", "/", "a">> }

ProductBlock(image) == Block("dict", "Product", image, NoJson, NoJson)

TwitterImages == {None, <<"http:", "/", "/", "t", "/", "a">>, <<"data:", "a">>}

JsonLdWithImage ==
  {<<>>,
   << ProductBlock([t |-> "str", s |-> <<"https:", "/", "/", "ld", "/", "a">>]) >>,
   << ProductBlock([t |-> "list_str", s |-> <<"ld", "/", "a">>]) >>,
   << ProductBlock([t |-> "list_num", s |-> JsonNumber]) >>,
   << ProductBlock([t |-> "dict", s |-> <<>>]) >>}

SelectorElements ==
  {<<>>, << [src |-> <<"/", "s", "/", "a", ".", "svg">>, dataSrc |-> <<"s", "/", "b">>] >>}

ImgElements ==
  {<<>>, << <<"/", "uploads", "/", "a">> >>, << <<"/", "product", "/", "logo">> >>}

ImagePage(og, tw, ld, sel, imgs) ==
  [BasePage EXCEPT !.ogImage = og, !.twitterImage = tw, !.jsonld = ld,
                   !.selImages = sel, !.allImages = imgs]

JsonLdBlocks ==
  {EmptyBlock, MalformedBlock, ListBlock,
   ProductBlock(NoJson),
   Block("dict", "Product", NoJson, [t |-> "dict_str", s |-> <<"schema", "OutOfStock">>], NoJson),
   Block("dict", "Product", NoJson, [t |-> "dict_num", s |-> JsonNumber], NoJson),
   Block("dict", "Product", NoJson, NoJson, [t |-> "dict_name", s |-> <<"B">>]),
   Block("dict", "Other", [t |-> "list_num", s |-> JsonNumber],
         [t |-> "dict_num", s |-> JsonNumber], NoJson)}

\* The most product-context elements of a page.
MaxStockEls == 2

\* Product blocks whose offer names an availability.
OfferBlock(token) ==
  Block("dict", "Product", NoJson, [t |-> "dict_str", s |-> <<"schema", token>>], NoJson)

OfferBlocks == {OfferBlock("OutOfStock"), OfferBlock("InStock"), OfferBlock("PreOrder")}

\* Texts of product-context elements.
StockTexts ==
  { <<"back", "in", "stock", "soon">>,
    <<"in", "stock">>,
    <<"Sold", "out">>,
    <<"OUT", "of", "stock">>,
    <<"currently", "un", "available">>,
    <<"ships", "immediately">>,
    <<"free", "delivery">> }

NoResult == [raised |-> FALSE, exc |-> "", value |-> <<>>, used |-> 0]

ExtractCall(url, html_content, t) ==
  [fn |-> "extract_product_data", url |-> url, html |-> html_content, tape |-> t,
   done |-> FALSE, out |-> NoResult, again |-> <<>>]

\* A call on a body with the HEAD requests all answered 200 image/jpeg.
PlainCall(url, page) == ExtractCall(url, << page >>, << HeadOk >>)

\* The calls of extract_product_data: every URL with one page; one URL with
\* no body, an empty body, and every page that differs from BasePage in its
\* title, in its price elements, in its markup, in its JSON-LD blocks, or in
\* its stock signals, or in its images (these with every tape of HEAD
\* outcomes).
InitExtract ==
  /\ IdleRun
  /\ \/ \E path \in SeqsUpTo(PathTokens, MaxPathLen) :
          call = PlainCall(BASE_URL \o path, PageOk)
     \/ call = ExtractCall(U2, <<>>, << HeadOk >>)
     \/ call = PlainCall(U1, PageEmptyBody)
     \/ \E t \in {None} \cup SeqsUpTo(TitleTokens, MaxTextLen) :
          call = PlainCall(U1, [BasePage EXCEPT !.title = t])
     \/ \E els \in SeqsUpTo(SeqsUpTo(PriceTokens, MaxTextLen), 2) :
          call = PlainCall(U1, [BasePage EXCEPT !.priceEls = els])
     \/ \E els \in {<<>>, << <<" ">> >>}, m \in SeqsUpTo(MarkupTokens, MaxMarkupLen) :
          call = PlainCall(U1, [BasePage EXCEPT !.priceEls = els, !.markup = m])
     \/ \E ld \in SeqsUpTo(JsonLdBlocks, 2) :
          call = PlainCall(U1, [BasePage EXCEPT !.jsonld = ld])
     \/ \E ld \in SeqsUpTo(OfferBlocks, 2), sold \in BOOLEAN,
           els \in SeqsUpTo(StockTexts, MaxStockEls) :
          call = PlainCall(U1, [BasePage EXCEPT !.jsonld = ld, !.soldOut = sold,
                                                !.stockEls = els])
     \/ \E og \in {None, <<>>} \cup ImageSrcs, tw \in TwitterImages,
           ld \in JsonLdWithImage, sel \in SelectorElements, imgs \in ImgElements,
           t \in Tapes({HeadOk, Head404, HeadTimeout}, MaxCallTape) :
          call = ExtractCall(U1, << ImagePage(og, tw, ld, sel, imgs) >>, t)
  /\ tape = call.tape

\* The call returns or raises.
Extract ==
  /\ pc = "call"
  /\ ~call.done
  /\ \E r \in {extract_product_data(call.url, call.html, tape, heads)} :
       /\ call' = [call EXCEPT !.done = TRUE, !.out = r]
       /\ heads' = r.used
  /\ pc' = "returned"
  /\ UNCHANGED << excel, origin, tape, product_links, batch_start, index, link,
                  max_retries, retries, gets, outcomes, sleeps, html, products,
                  product_attempts, feeds, attempted, ioFailed >>

\* The function is called once more with the same URL and the same body,
\* the network answering its HEAD requests as the tape goes on.
ExtractAgain ==
  /\ pc = "returned"
  /\ call.fn = "extract_product_data"
  /\ call.again = <<>>
  /\ \E r \in {extract_product_data(call.url, call.html, tape, heads)} :
       /\ call' = [call EXCEPT !.again = << r >>]
       /\ heads' = r.used
  /\ UNCHANGED << pc, excel, origin, tape, product_links, batch_start, index, link,
                  max_retries, retries, gets, outcomes, sleeps, html, products,
                  product_attempts, feeds, attempted, ioFailed >>

NextExtract == Extract \/ ExtractAgain

SpecExtract == InitExtract /\ [][NextExtract]_vars

\* ------------------------------------ batch_validate_images_for_meta alone
\* The longest product list handed to the batch validator.
MaxBatchLen == 2

\* The image links of the records handed to the batch validator: missing,
\* empty, coercible and not coercible ones.
BatchImages ==
  {None, <<>>, <<"http:", "/", "/", "a">>, <<"https:", "/", "/", "a">>, <<"/", "a">>,
   <<"data:", "a">>}

\* The i-th record of the list, told from the others by its id.
BatchRecord(i, image) ==
  [ProductData(U1, PageOk, image) EXCEPT !.id = [k \in 1..i |-> "a"]]

InitBatch ==
  /\ IdleRun
  /\ \E n \in 0..MaxBatchLen :
       \E images \in [1..n -> BatchImages] :
         call = [fn |-> "batch_validate_images_for_meta",
                 products |-> [i \in 1..n |-> BatchRecord(i, images[i])],
                 done |-> FALSE, out |-> <<>>]
  /\ tape \in Tapes({HeadOk, Head404, HeadTimeout}, MaxCallTape)

\* The call returns validated_products.
BatchValidate ==
  /\ pc = "call"
  /\ ~call.done
  /\ \E v \in {batch_validate_images_for_meta(call.products, tape, heads)} :
       /\ call' = [call EXCEPT !.done = TRUE, !.out = v.products]
       /\ heads' = v.used
  /\ pc' = "returned"
  /\ UNCHANGED << excel, origin, tape, product_links, batch_start, index, link,
                  max_retries, retries, gets, outcomes, sleeps, html, products,
                  product_attempts, feeds, attempted, ioFailed >>

NextBatch == BatchValidate

SpecBatch == InitBatch /\ [][NextBatch]_vars

\* ------------------------------------------------------ the feed serializers
\* A file is none (never written), a CSV text or an XML document.
NoFile == [kind |-> "none"]
CsvFile(text) == [kind |-> "csv", text |-> text]

\* The tokens the csv module treats specially: the delimiter, the quote
\* character, carriage return and line feed.
Comma == ","
DQuote == "dq"
CR == "cr"
LF == "lf"

GoogleFieldNames ==
  << "id", "title", "description", "link", "image_link", "price", "currency",
     "availability", "condition", "brand" >>

\* str(5), the text the csv module writes for a number.
NumberText == <<"5">>

\* The text the csv writer makes of a value: '' for None, str() for a number.
CsvText(v) ==
  IF v = None THEN <<>> ELSE IF v = JsonNumber THEN NumberText ELSE v

\* Every quote character of a quoted field is doubled.
RECURSIVE DoubleQuotes(_)
DoubleQuotes(s) ==
  IF s = <<>> THEN <<>>
  ELSE (IF Head(s) = DQuote THEN << DQuote, DQuote >> ELSE << Head(s) >>)
       \o DoubleQuotes(Tail(s))

\* A mutation of CsvField: the field is written as it is, never quoted.
CsvFieldUnquoted(v) == CsvText(v)

\* QUOTE_MINIMAL: a field holding a delimiter, a quote character or a
\* character of the line terminator is quoted.
CsvField(v) ==
  LET s == CsvText(v)
  IN  IF \E i \in 1..Len(s) : s[i] \in {Comma, DQuote, CR, LF}
        THEN << DQuote >> \o DoubleQuotes(s) \o << DQuote >>
        ELSE s

\* writer.writerow: the fields from column k on, joined by the delimiter and
\* closed by the line terminator '\r\n'.
RECURSIVE CsvRowFrom(_, _)
CsvRowFrom(fields, k) ==
  IF k > Len(fields) THEN << CR, LF >>
  ELSE (IF k > 1 THEN << Comma >> ELSE <<>>) \o CsvField(fields[k])
       \o CsvRowFrom(fields, k + 1)

\* The values DictWriter takes from a record, in the order of fieldnames.
RowValues(record, fieldnames) == [k \in 1..Len(fieldnames) |-> record[fieldnames[k]]]

\* The rows of the records from record i on.
RECURSIVE CsvRowsFrom(_, _, _)
CsvRowsFrom(ps, i, fieldnames) ==
  IF i > Len(ps) THEN <<>>
  ELSE CsvRowFrom(RowValues(ps[i], fieldnames), 1) \o CsvRowsFrom(ps, i + 1, fieldnames)

\* A mutation of WriteCsv: the header is written with the first record only.
WriteCsvHeaderWithRows(ps, fieldnames) ==
  IF ps = <<>> THEN <<>>
  ELSE CsvRowFrom([k \in 1..Len(fieldnames) |-> << fieldnames[k] >>], 1)
       \o CsvRowsFrom(ps, 1, fieldnames)

\* writeheader, then one writerow per record.
WriteCsv(ps, fieldnames) ==
  CsvRowFrom([k \in 1..Len(fieldnames) |-> << fieldnames[k] >>], 1)
  \o CsvRowsFrom(ps, 1, fieldnames)

\* csv.reader, as the state machine of the csv module.  One field, read
\* from token i on: st is the state of the machine, field what it has
\* gathered; the result tells the text, the token after the field's end and
\* what ended it.
RECURSIVE ReadFieldFrom(_, _, _, _)
ReadFieldFrom(s, i, st, field) ==
  IF i > Len(s) THEN [text |-> field, next |-> i, term |-> "eof"]
  ELSE IF st = "in_quoted"
    THEN IF s[i] = DQuote
           THEN ReadFieldFrom(s, i + 1, "quote_in_quoted", field)
           ELSE ReadFieldFrom(s, i + 1, "in_quoted", Append(field, s[i]))
  ELSE IF s[i] \in {CR, LF} THEN [text |-> field, next |-> i + 1, term |-> "eol"]
  ELSE IF s[i] = Comma THEN [text |-> field, next |-> i + 1, term |-> "comma"]
  ELSE IF s[i] = DQuote /\ st = "start_field"
    THEN ReadFieldFrom(s, i + 1, "in_quoted", field)
  ELSE IF s[i] = DQuote /\ st = "quote_in_quoted"
    THEN ReadFieldFrom(s, i + 1, "in_quoted", Append(field, s[i]))
  ELSE ReadFieldFrom(s, i + 1, "in_field", Append(field, s[i]))

RECURSIVE ReadRecordFrom(_, _, _)
\* The record goes on after a delimiter and is finished otherwise.
AfterField(s, row, f) ==
  IF f.term = "comma" THEN ReadRecordFrom(s, f.next, Append(row, f.text))
  ELSE [row |-> Append(row, f.text), next |-> f.next]

\* One record, read from token i on, row being its fields so far.
ReadRecordFrom(s, i, row) == AfterField(s, row, ReadFieldFrom(s, i, "start_field", <<>>))

RECURSIVE ReadRecordsFrom(_, _, _)
AfterRecord(s, rows, r) == ReadRecordsFrom(s, r.next, Append(rows, r.row))

\* The records from token i on; an empty line gives no record.
ReadRecordsFrom(s, i, rows) ==
  IF i > Len(s) THEN rows
  ELSE IF s[i] \in {CR, LF} THEN ReadRecordsFrom(s, i + 1, rows)
  ELSE AfterRecord(s, rows, ReadRecordFrom(s, i, <<>>))

\* csv.DictReader: the first record names the columns, the others are rows.
ReadCsv(s) ==
  LET records == ReadRecordsFrom(s, 1, <<>>)
  IN  IF records = <<>> THEN [header |-> <<>>, rows |-> <<>>]
      ELSE [header |-> Head(records), rows |-> Tail(records)]

\* generate_csv_feed(products): files are the feed files before the call,
\* the result those after it (a feed and its compatibility copy are one).
generate_csv_feed(files, ps) ==
  [files EXCEPT !["google_csv"] = CsvFile(WriteCsv(ps, GoogleFieldNames))]

\* An XML document: its root tag, the channel element (none for Meta) and
\* the <item> elements, each the texts of its children.
XmlFile(root, channel, items) ==
  [kind |-> "xml", root |-> root, channel |-> channel, items |-> items]

\* What tree.write leaves when ElementTree refuses a text: a file cut short.
BrokenFile == [kind |-> "broken"]

\* f"{product['price']} {product['currency']}"
PriceWithCurrency(product) == product.price \o <<" ">> \o product.currency

\* The children of the <item> of a product, the same in both XML feeds but
\* for the g: prefix of the Google tags.
XmlItem(product) ==
  [id |-> product.id, title |-> product.title, description |-> product.description,
   link |-> product.link, image_link |-> product.image_link,
   price |-> PriceWithCurrency(product), availability |-> product.availability,
   condition |-> product.condition, brand |-> product.brand]

XmlItems(ps) == [i \in 1..Len(ps) |-> XmlItem(ps[i])]

GoogleChannel ==
  << [title |-> <<"Joy and Co Product Feed">>, link |-> BASE_URL,
      description |-> <<"Product feed for Google Shopping">>] >>

MetaFieldNames ==
  << "id", "title", "description", "link", "image_link", "price", "availability",
     "condition", "brand" >>

\* meta_product: the copy with the currency moved into the price.
MetaProduct(product) ==
  [f \in (DOMAIN product) \ {"currency"} |->
     IF f = "price" THEN PriceWithCurrency(product) ELSE product[f]]

\* generate_meta_csv_feed(products)
generate_meta_csv_feed(files, ps) ==
  [files EXCEPT !["meta_csv"] =
     CsvFile(WriteCsv([i \in 1..Len(ps) |-> MetaProduct(ps[i])], MetaFieldNames))]

\* generate_meta_xml_feed from the validation on, v being what
\* batch_validate_images_for_meta gave: the document is built of the
\* validated records and the Meta CSV written of the same list.
MetaXmlOf(files, v) ==
  IF SerializationFails(v.products)
    THEN [files |-> [files EXCEPT !["meta_xml"] = BrokenFile],
          products |-> v.products, used |-> v.used]
    ELSE [files |-> generate_meta_csv_feed(
                      [files EXCEPT !["meta_xml"] = XmlFile("feed", <<>>, XmlItems(v.products))],
                      v.products),
          products |-> v.products, used |-> v.used]

\* A mutation of generate_meta_xml_feed: the document and the Meta CSV are
\* built of the records as they came, the validation left out.
MetaXmlUnvalidated(files, ps, t, used) ==
  MetaXmlOf(files, [products |-> ps, used |-> used])

\* generate_meta_xml_feed(products): the records of products.copy() are the
\* caller's records, so the result names them as validation left them.
generate_meta_xml_feed(files, ps, t, used) ==
  MetaXmlOf(files, batch_validate_images_for_meta(ps, t, used))

\* generate_xml_feed(products): the Google document, then the Meta feeds.
generate_xml_feed(files, ps, t, used) ==
  IF SerializationFails(ps)
    THEN [files |-> [files EXCEPT !["google_xml"] = BrokenFile],
          products |-> ps, used |-> used]
    ELSE generate_meta_xml_feed(
           [files EXCEPT !["google_xml"] = XmlFile("rss", GoogleChannel, XmlItems(ps))],
           ps, t, used)

\* The line main writes as a placeholder CSV: the names and '\n'.
RECURSIVE HeaderLine(_, _)
HeaderLine(fieldnames, k) ==
  IF k > Len(fieldnames) THEN << LF >>
  ELSE (IF k > 1 THEN << Comma >> ELSE <<>>) \o << fieldnames[k] >>
       \o HeaderLine(fieldnames, k + 1)

\* The empty feed files main creates when it has no URL or no record.
PlaceholderFiles ==
  [f \in FeedTypes |->
     CASE f = "google_csv" -> CsvFile(HeaderLine(GoogleFieldNames, 1))
       [] f = "google_xml" -> XmlFile("rss", GoogleChannel, <<>>)
       [] f = "meta_xml" -> XmlFile("feed", <<>>, <<>>)
       [] f = "meta_csv" -> CsvFile(HeaderLine(MetaFieldNames, 1))]

\* -------------------------------------------------- the serializers alone
\* The longest text of a record's field, in tokens.
MaxFieldLen == 2

CsvTokens == {"a", Comma, DQuote, CR, LF}

\* The i-th record of a list with the text of one of its fields set.
FeedRecord(i, field, text) == [BatchRecord(i, HttpsPrefix \o <<"a">>) EXCEPT ![field] = text]

Serializers ==
  {"generate_csv_feed", "generate_xml_feed", "generate_meta_xml_feed",
   "generate_meta_csv_feed"}

NoFiles == [f \in FeedTypes |-> NoFile]

FeedCall(fn, ps) ==
  [fn |-> fn, products |-> ps, done |-> FALSE,
   out |-> [files |-> NoFiles, products |-> <<>>, used |-> 0]]

\* The calls of the serializers: lists of up to MaxBatchLen records of which
\* the last has any text in any of its fields; for the two that validate,
\* lists whose records have any of the image links, under every tape of HEAD
\* outcomes; a record whose brand is a number of JSON-LD; the empty list,
\* also for main, which then writes the placeholders.
InitFeeds ==
  /\ IdleRun
  /\ \/ /\ \E fn \in Serializers, n \in 1..MaxBatchLen :
             \E field \in Range(GoogleFieldNames),
                text \in SeqsUpTo(CsvTokens, MaxFieldLen) :
               call = FeedCall(fn, [i \in 1..n |->
                        IF i = n THEN FeedRecord(i, field, text)
                                 ELSE FeedRecord(i, "title", <<"T">>)])
        /\ tape = << HeadOk >>
     \/ /\ \E fn \in {"generate_xml_feed", "generate_meta_xml_feed"},
              n \in 1..MaxBatchLen :
             \E images \in [1..n -> BatchImages] :
               call = FeedCall(fn, [i \in 1..n |-> BatchRecord(i, images[i])])
        /\ tape \in Tapes({HeadOk, Head404, HeadTimeout}, MaxCallTape)
     \/ /\ \E fn \in Serializers :
             call = FeedCall(fn, << FeedRecord(1, "brand", JsonNumber) >>)
        /\ tape = << HeadOk >>
     \/ /\ \E fn \in Serializers \cup {"main"} : call = FeedCall(fn, <<>>)
        /\ tape \in Tapes({HeadOk, Head404}, 1)

\* The call has returned r.
Returned(r) ==
  /\ call' = [call EXCEPT !.done = TRUE, !.out = r]
  /\ heads' = r.used
  /\ pc' = "returned"
  /\ UNCHANGED << excel, origin, tape, product_links, batch_start, index, link,
                  max_retries, retries, gets, outcomes, sleeps, html, products,
                  product_attempts, feeds, attempted, ioFailed >>

CsvFeed ==
  /\ pc = "call" /\ call.fn = "generate_csv_feed"
  /\ Returned([files |-> generate_csv_feed(call.out.files, call.products),
               products |-> call.products, used |-> heads])

XmlFeed ==
  /\ pc = "call" /\ call.fn = "generate_xml_feed"
  /\ \E r \in {generate_xml_feed(call.out.files, call.products, tape, heads)} :
       Returned(r)

MetaXmlFeed ==
  /\ pc = "call" /\ call.fn = "generate_meta_xml_feed"
  /\ \E r \in {generate_meta_xml_feed(call.out.files, call.products, tape, heads)} :
       Returned(r)

MetaCsvFeed ==
  /\ pc = "call" /\ call.fn = "generate_meta_csv_feed"
  /\ Returned([files |-> generate_meta_csv_feed(call.out.files, call.products),
               products |-> call.products, used |-> heads])

\* main with an empty result list: the placeholder files.
EmptyFeeds ==
  /\ pc = "call" /\ call.fn = "main"
  /\ call.products = <<>>
  /\ Returned([files |-> PlaceholderFiles, products |-> call.products, used |-> heads])

NextFeeds == CsvFeed \/ XmlFeed \/ MetaXmlFeed \/ MetaCsvFeed \/ EmptyFeeds

SpecFeeds == InitFeeds /\ [][NextFeeds]_vars

\* -------------------------------------- get_fallback_image_for_meta alone
\* The longest tape of HEAD outcomes of a call of get_fallback_image_for_meta.
MaxFallbackTape == 3

InitFallback ==
  /\ IdleRun
  /\ call = [fn |-> "get_fallback_image_for_meta", done |-> FALSE,
             out |-> [url |-> None, used |-> 0]]
  /\ tape \in Tapes({HeadOk, Head404, HeadTimeout,
                     [kind |-> "Exception", status |-> 0, ctype |-> <<>>]},
                    MaxFallbackTape)

\* The call returns the fallback image.
Fallback ==
  /\ pc = "call"
  /\ ~call.done
  /\ \E f \in {get_fallback_image_for_meta(tape, heads)} :
       /\ call' = [call EXCEPT !.done = TRUE, !.out = f]
       /\ heads' = f.used
  /\ pc' = "returned"
  /\ UNCHANGED << excel, origin, tape, product_links, batch_start, index, link,
                  max_retries, retries, gets, outcomes, sleeps, html, products,
                  product_attempts, feeds, attempted, ioFailed >>

NextFallback == Fallback

SpecFallback == InitFallback /\ [][NextFallback]_vars

\* ================================================================ claims
\* The corrected URL a returned validator call must carry for input u, by
\* the four coercion rules.
Coerced(u) ==
  IF StartsWith(u, HttpPrefix) THEN HttpsPrefix \o SubSeq(u, 4, Len(u))
  ELSE IF StartsWith(u, <<"/", "/">>) THEN HttpsPrefix \o SubSeq(u, 3, Len(u))
  ELSE IF StartsWith(u, <<"/">>) THEN BASE_URL \o <<"/">> \o SubSeq(u, 2, Len(u))
  ELSE u

Coercible(u) ==
  /\ u # None
  /\ \/ StartsWith(u, HttpPrefix)
     \/ StartsWith(u, HttpsPrefix)
     \/ StartsWith(u, <<"/">>)

\* C10: a returned call of validate_and_fix_image_url carries, for an input
\* http:// + R, the URL https:// + R; for // + R, https:// + R; for a
\* root-relative / + P, the base URL followed by / + P; for an https:// URL,
\* the input itself; every other input, the empty one included, is rejected
\* with ok = false and a non-empty error and no HEAD request is issued.
C10_Coercion ==
  (call.fn = "validate_and_fix_image_url" /\ call.done) =>
    IF Coercible(call.image_url)
      THEN call.out.url = Coerced(call.image_url)
      ELSE /\ ~call.out.ok
           /\ ~Falsy(call.out.error)
           /\ call.out.heads = 0
           /\ heads = 0

\* C10 witness: an http:// URL whose remainder holds http:// again was
\* validated with a HEAD request and accepted.
C10_Witness ==
  /\ call.fn = "validate_and_fix_image_url"
  /\ call.done
  /\ StartsWith(call.image_url, HttpPrefix)
  /\ Contains(SubSeq(call.image_url, 4, Len(call.image_url)), HttpPrefix)
  /\ call.out.ok
  /\ heads = 1

\* The attempts made so far all ended in a transport error or an HTTP error.
AllFailed == \A i \in 1..Len(outcomes) : outcomes[i].kind # "ok"

\* What holds of a call of get_page_content at every moment.
FetchBounded ==
  /\ gets <= max_retries
  /\ Len(outcomes) = gets
  /\ \A i \in 1..Len(outcomes) :
       outcomes[i].kind = "ok" =>
         /\ i = Len(outcomes)
         /\ pc = "fetched"
         /\ html = << outcomes[i].body >>
  /\ (pc = "fetched" /\ html = <<>>) => (gets = max_retries /\ AllFailed)
  /\ (pc = "fetched" /\ html # <<>>) => (gets >= 1 /\ outcomes[gets].kind = "ok")

\* C1: get_page_content(url, max_retries) terminates; it issues at most
\* max_retries GETs, returns the body of the first GET that succeeds
\* without a further GET, and returns None only after exactly max_retries
\* GETs that each ended in a transport error or an HTTP error status.
C1_FetchTerminates == []FetchBounded /\ <>(pc = "fetched")

\* C1 witness: a call with the default bound gave up after three failed GETs.
C1_Witness ==
  /\ pc = "fetched"
  /\ html = <<>>
  /\ max_retries = DefaultMaxRetries
  /\ gets = DefaultMaxRetries
  /\ Len(sleeps) = DefaultMaxRetries - 1

\* The links main has started on, in the order it did.
AttemptedLinks == [i \in 1..Len(product_attempts) |-> product_attempts[i].link]

\* main has ended, by returning or by an exception.
Ended == pc \in {"done", "crashed"}

\* C2: when a run over a non-empty manifest has ended, every URL of the
\* manifest was processed exactly once and in manifest order, a URL whose
\* fetch exhausted its retries gave no record, and feed generation was
\* reached (records were serialized or the placeholders written).
C2_EveryUrlOnce ==
  (Ended /\ product_links # <<>>) =>
    /\ AttemptedLinks = product_links
    /\ \A i \in 1..Len(product_attempts) :
         product_attempts[i].access = "failed" => product_attempts[i].extraction = ""
    /\ Len(products) = Cardinality({i \in 1..Len(product_attempts) :
                                      product_attempts[i].extraction = "extracted"})
    /\ (attempted # {} \/ feeds = Placeholders)

\* C3: no exception leaves extract_product_data into the loop of main,
\* whatever the fetched page holds.
C3_NoEscape == pc # "crashed"

\* C4: a run that has ended without a filesystem error has written all
\* four feeds: the placeholders when the manifest gave no URL or no URL
\* gave a record, else feeds with one entry per record.
C4_AllFeedsWritten ==
  (Ended /\ ~ioFailed) =>
    IF product_links = <<>> \/ products = <<>>
      THEN feeds = Placeholders
      ELSE \A f \in FeedTypes :
             feeds[f].state = "written" /\ Len(feeds[f].rows) = Len(products)

\* C5: when main has returned from a run in which the generation of some
\* feed failed, the generation of each of the four feeds was attempted.
C5_FailureIndependent ==
  (pc = "done" /\ \E f \in FeedTypes : feeds[f].state = "failed") =>
    attempted = FeedTypes

\* A call of extract_product_data on a fetched page has ended.
Extracted ==
  /\ call.fn = "extract_product_data"
  /\ call.done
  /\ call.html # <<>>
  /\ ~call.html[1].empty

\* The page has no <title>, or one that is empty or whitespace.
NoTitle(page) == page.title = None \/ \A i \in 1..Len(page.title) : IsSpace(page.title[i])

\* C6: a record is emitted only with a non-empty title; for a fetched page
\* without a title the function returns None.
C6_TitleMandatory ==
  Extracted =>
    /\ call.out.value # <<>> => call.out.value[1].title # <<>>
    /\ NoTitle(call.html[1]) => (~call.out.raised /\ call.out.value = <<>>)

\* Digits with an optional decimal point.
NumericText(s) ==
  /\ s # <<>>
  /\ IsDigit(s[1])
  /\ \A i \in 1..Len(s) : IsDigit(s[i]) \/ s[i] = "."
  /\ Cardinality({i \in 1..Len(s) : s[i] = "."}) <= 1

\* No price element holds a number and no pattern matches the markup.
NoPriceSource(page) ==
  /\ \A i \in 1..Len(page.priceEls) : \A k \in 1..Len(page.priceEls[i]) :
       ~IsDigit(page.priceEls[i][k])
  /\ PriceFromPatterns(page.markup) = None

\* C7: the price of an emitted record is a non-empty numeric text, and a
\* page without any price source gives a record with the default price.
C7_PriceNumeric ==
  Extracted =>
    /\ call.out.value # <<>> => NumericText(call.out.value[1].price)
    /\ NoPriceSource(call.html[1]) =>
         /\ call.out.value # <<>>
         /\ call.out.value[1].price = DefaultPrice

\* Every JSON-LD block of the page has text, and no offer of a Product has
\* an availability that is no string.
JsonLdReadable(page) ==
  \A i \in 1..Len(page.jsonld) :
    /\ page.jsonld[i].parse # "empty"
    /\ ~(page.jsonld[i].parse = "dict" /\ page.jsonld[i].type = "Product"
           /\ page.jsonld[i].offers.t = "dict_num")

\* C8: whatever images a fetched page names, the record is emitted and its
\* image_link is a URL beginning with https://.
C8_ImageNeverDrops ==
  (Extracted /\ JsonLdReadable(call.html[1])) =>
    /\ ~call.out.raised
    /\ call.out.value # <<>>
    /\ StartsWith(call.out.value[1].image_link, HttpsPrefix)

\* The last non-empty text between two '/' of the URL (or after the last).
LastNonEmptySegment(url) ==
  LET inside == {i \in 1..Len(url) : url[i] # "/"}
      last == CHOOSE i \in inside : \A j \in inside : j <= i
      before == {i \in 1..last : url[i] = "/"}
      first == IF before = {} THEN 1
               ELSE (CHOOSE i \in before : \A j \in before : j <= i) + 1
  IN  IF inside = {} THEN <<>> ELSE SubSeq(url, first, last)

\* C9: the id of an emitted record is non-empty and is the last non-empty
\* path segment of the URL without its file extension.
C9_IdFromUrl ==
  (Extracted /\ call.out.value # <<>>) =>
    /\ call.out.value[1].id # <<>>
    /\ call.out.value[1].id = StripExtension(LastNonEmptySegment(call.url))

\* A call of validate_and_fix_image_url that issued its HEAD request has
\* returned.
Checked ==
  /\ call.fn = "validate_and_fix_image_url"
  /\ call.done
  /\ call.out.heads = 1

\* The HEAD request was answered with a 2xx status and an image/ content type.
AnsweredImage(head) ==
  /\ head.kind = "response"
  /\ head.status \in 200..299
  /\ StartsWith(Lower(head.ctype), <<"image", "/">>)

\* C11: when the existence check is answered, the validator returns ok =
\* true without an error if the status is 2xx and the content type begins
\* with image/, and ok = false with an error message otherwise.
C11_AnswerDecides ==
  (Checked /\ call.head.kind = "response") =>
    IF AnsweredImage(call.head)
      THEN call.out.ok /\ call.out.error = None
      ELSE ~call.out.ok /\ ~Falsy(call.out.error)

\* C12: when the HEAD request ends in a network error the validator returns
\* ok = true, the HTTPS-corrected URL and no error.
C12_NetworkErrorAccepts ==
  (Checked /\ call.head.kind = "RequestException") =>
    /\ call.out.ok
    /\ call.out.url = Coerced(call.image_url)
    /\ call.out.error = None

\* C12 witness: an http:// URL whose HEAD request timed out came back
\* accepted, rewritten to https://.
C12_Witness ==
  /\ Checked
  /\ call.head.kind = "RequestException"
  /\ StartsWith(call.image_url, HttpPrefix)
  /\ call.out.ok
  /\ StartsWith(call.out.url, HttpsPrefix)

\* The images get_fallback_image_for_meta can return.
FallbackImages == Range(FallbackOptions) \cup {FinalFallback}

\* Every HEAD request of the run is answered as an image, or not answered.
AllAccepted(t) ==
  \A k \in 1..Len(t) : t[k].kind = "RequestException" \/ AnsweredImage(t[k])

\* Every HEAD request of the run is answered 404.
AllRejected(t) == \A k \in 1..Len(t) : t[k] = Head404

\* A call of batch_validate_images_for_meta has returned.
BatchDone == call.fn = "batch_validate_images_for_meta" /\ call.done

\* C13: the list batch_validate_images_for_meta returns has the length of
\* its input and the same records in the same order, but for image_link;
\* a record whose image_link is missing or fails validation has a fallback
\* image, one whose image_link validates has the validator's corrected URL.
C13_BatchKeepsRecords ==
  BatchDone =>
    /\ Len(call.out) = Len(call.products)
    /\ \A i \in 1..Len(call.products) :
         /\ i <= Len(call.out)
         /\ call.out[i] =
              [call.products[i] EXCEPT !.image_link = call.out[i].image_link]
         /\ \/ call.out[i].image_link \in FallbackImages
            \/ /\ Coercible(call.products[i].image_link)
               /\ call.out[i].image_link = Coerced(call.products[i].image_link)
         /\ ~Coercible(call.products[i].image_link) =>
              call.out[i].image_link \in FallbackImages
         /\ (AllAccepted(tape) /\ Coercible(call.products[i].image_link)) =>
              call.out[i].image_link = Coerced(call.products[i].image_link)
         /\ AllRejected(tape) => call.out[i].image_link = FinalFallback

\* C13 witness: of two records the first had no image and got a fallback,
\* the second had an http:// image and kept it, rewritten to https://.
C13_Witness ==
  /\ BatchDone
  /\ Len(call.products) = 2
  /\ Falsy(call.products[1].image_link)
  /\ call.out[1].image_link \in FallbackImages
  /\ StartsWith(call.products[2].image_link, HttpPrefix)
  /\ call.out[2].image_link = Coerced(call.products[2].image_link)

\* A call of generate_csv_feed has returned.
CsvDone == call.fn = "generate_csv_feed" /\ call.done

\* Every field of the records handed over is a text.
TextRecords(ps) ==
  \A i \in 1..Len(ps) : \A f \in DOMAIN ps[i] : ps[i][f] \notin {None, JsonNumber}

\* C14: the file generate_csv_feed writes for N records reads back as the
\* header id, title, description, link, image_link, price, currency,
\* availability, condition, brand and N rows, the i-th holding the field
\* values of the i-th record in that column order; so also for N = 0.
C14_CsvRoundTrip ==
  (CsvDone /\ TextRecords(call.products)) =>
    LET file == call.out.files["google_csv"]
        read == ReadCsv(file.text)
    IN  /\ file.kind = "csv"
        /\ read.header = [k \in 1..10 |-> << GoogleFieldNames[k] >>]
        /\ GoogleFieldNames =
             << "id", "title", "description", "link", "image_link", "price",
                "currency", "availability", "condition", "brand" >>
        /\ Len(read.rows) = Len(call.products)
        /\ \A i \in 1..Len(call.products) :
             /\ i <= Len(read.rows)
             /\ read.rows[i] = [k \in 1..10 |-> call.products[i][GoogleFieldNames[k]]]

\* C14 witness: two records were written, the second with a title of a
\* comma and a quote character, and the file reads back as two rows.
C14_Witness ==
  /\ CsvDone
  /\ Len(call.products) = 2
  /\ call.products[2].title = << Comma, DQuote >>
  /\ Len(ReadCsv(call.out.files["google_csv"].text).rows) = 2
  /\ ReadCsv(call.out.files["google_csv"].text).rows[2][2] = << Comma, DQuote >>

\* A serializer, or main's placeholder block, has returned from an empty
\* record list.
EmptyDone == call.fn \in Serializers \cup {"main"} /\ call.done /\ call.products = <<>>

\* The feed files a call writes when nothing fails.
FilesOf(fn) ==
  CASE fn = "generate_csv_feed" -> {"google_csv"}
    [] fn = "generate_xml_feed" -> {"google_xml", "meta_xml", "meta_csv"}
    [] fn = "generate_meta_xml_feed" -> {"meta_xml", "meta_csv"}
    [] fn = "generate_meta_csv_feed" -> {"meta_csv"}
    [] fn = "main" -> FeedTypes

\* The file is the empty feed of its type: the header row alone for a CSV,
\* the root element (rss with its channel, or feed) without <item> for XML.
EmptyFeed(f, file) ==
  CASE f = "google_csv" ->
         /\ file.kind = "csv"
         /\ ReadCsv(file.text) =
              [header |-> [k \in 1..10 |-> << GoogleFieldNames[k] >>], rows |-> <<>>]
    [] f = "meta_csv" ->
         /\ file.kind = "csv"
         /\ ReadCsv(file.text) =
              [header |-> [k \in 1..9 |-> << MetaFieldNames[k] >>], rows |-> <<>>]
    [] f = "google_xml" ->
         file.kind = "xml" /\ file.root = "rss" /\ Len(file.channel) = 1 /\ file.items = <<>>
    [] f = "meta_xml" ->
         file.kind = "xml" /\ file.root = "feed" /\ file.channel = <<>> /\ file.items = <<>>

\* C15: from an empty record list every serializer leaves each file it
\* writes as the empty feed of its type (header row only, or root element
\* with zero items), and so are the placeholder files of main.
C15_EmptyListWellFormed ==
  EmptyDone =>
    \A f \in FeedTypes :
      IF f \in FilesOf(call.fn) THEN EmptyFeed(f, call.out.files[f])
      ELSE call.out.files[f] = NoFile

\* C15 witness: generate_xml_feed returned from an empty list and left the
\* Google document, the Meta document and the Meta CSV, all empty feeds.
C15_Witness ==
  /\ EmptyDone
  /\ call.fn = "generate_xml_feed"
  /\ call.out.files["google_xml"].kind = "xml"
  /\ call.out.files["meta_xml"].items = <<>>
  /\ Len(ReadCsv(call.out.files["meta_csv"].text).header) = 9

\* A call that went through generate_meta_xml_feed has returned.
MetaDone == call.fn \in {"generate_meta_xml_feed", "generate_xml_feed"} /\ call.done

\* The image link a Meta output may show for a record that came with image
\* link u: the validator's HTTPS-corrected URL or a fallback image.
MetaImage(u, shown) ==
  \/ shown \in FallbackImages
  \/ Coercible(u) /\ shown = Coerced(u)

\* C16: the <item> elements of the Meta document are those of the records
\* as batch_validate_images_for_meta left them and the rows of the Meta CSV
\* are of the same list: each image_link is the validator's corrected URL
\* or a fallback image, each price is '<price> <currency>', and the CSV has
\* no currency column.
C16_MetaValidatedFirst ==
  MetaDone =>
    LET xml == call.out.files["meta_xml"]
        csvf == call.out.files["meta_csv"]
        read == ReadCsv(csvf.text)
    IN  /\ xml.kind = "xml" =>
             /\ Len(xml.items) = Len(call.products)
             /\ csvf.kind = "csv"
             /\ \A i \in 1..Len(call.products) :
                  /\ i <= Len(xml.items)
                  /\ MetaImage(call.products[i].image_link, xml.items[i].image_link)
                  /\ xml.items[i].image_link = call.out.products[i].image_link
                  /\ ~Falsy(xml.items[i].image_link)
                  /\ xml.items[i].price =
                       call.products[i].price \o <<" ">> \o call.products[i].currency
        /\ csvf.kind = "csv" =>
             /\ xml.kind = "xml"
             /\ read.header = [k \in 1..9 |-> << MetaFieldNames[k] >>]
             /\ \A k \in 1..9 : MetaFieldNames[k] # "currency"
             /\ Len(read.rows) = Len(call.products)
             /\ \A i \in 1..Len(call.products) :
                  /\ i <= Len(read.rows) /\ i <= Len(xml.items)
                  /\ read.rows[i][5] = xml.items[i].image_link
                  /\ read.rows[i][6] = xml.items[i].price

\* C16 witness: a record that came without an image and one whose http://
\* image validated are in the Meta document and in the Meta CSV, the first
\* with a fallback image, the second with its https:// URL.
C16_Witness ==
  /\ MetaDone
  /\ call.fn = "generate_meta_xml_feed"
  /\ Len(call.products) = 2
  /\ Falsy(call.products[1].image_link)
  /\ StartsWith(call.products[2].image_link, HttpPrefix)
  /\ call.out.files["meta_xml"].kind = "xml"
  /\ call.out.files["meta_xml"].items[1].image_link \in FallbackImages
  /\ call.out.files["meta_xml"].items[2].image_link = Coerced(call.products[2].image_link)
  /\ call.out.files["meta_csv"].kind = "csv"
  /\ ReadCsv(call.out.files["meta_csv"].text).rows[2][5] =
       Coerced(call.products[2].image_link)

\* extract_product_data was called twice with the same URL and body.
ExtractedTwice == Extracted /\ call.again # <<>>

\* C17: two calls of extract_product_data with the same URL and the same
\* HTML give the same result, image_link included.
C17_Deterministic ==
  ExtractedTwice =>
    /\ call.again[1].raised = call.out.raised
    /\ call.again[1].value = call.out.value

\* A record came back from extract_product_data.
Emitted == Extracted /\ ~call.out.raised /\ call.out.value # <<>>

\* The Product blocks of the page name no OutOfStock or InStock offer.
NoJsonLdSignal(page) ==
  \A i \in 1..Len(page.jsonld) :
    ~(/\ page.jsonld[i].parse = "dict" /\ page.jsonld[i].type = "Product"
      /\ page.jsonld[i].offers.t = "dict_str"
      /\ (HasToken(page.jsonld[i].offers.s, "OutOfStock")
            \/ HasToken(page.jsonld[i].offers.s, "InStock")))

\* The phrases of the table that some product-context element holds, as
\* their places in the table.
PhrasesFound(page) ==
  {k \in 1..Len(stock_phrases) :
     \E e \in 1..Len(page.stockEls) :
       Contains(Lower(page.stockEls[e]), stock_phrases[k].phrase)}

\* C18: the availability of an emitted record is 'in stock' or 'out of
\* stock', and it is 'in stock' when the page has no JSON-LD availability
\* token, no sold-out element and no phrase of the table.
C18_AvailabilityBinary ==
  Emitted =>
    /\ call.out.value[1].availability \in {InStockText, OutOfStockText}
    /\ (/\ NoJsonLdSignal(call.html[1])
        /\ ~call.html[1].soldOut
        /\ PhrasesFound(call.html[1]) = {}) =>
         call.out.value[1].availability = InStockText

\* C18 witness: a page whose only offer says PreOrder and whose only
\* product-context text holds no phrase gave a record that is in stock.
C18_Witness ==
  /\ Emitted
  /\ call.html[1].jsonld = << OfferBlock("PreOrder") >>
  /\ call.html[1].stockEls = << <<"free", "delivery">> >>
  /\ ~call.html[1].soldOut
  /\ call.out.value[1].availability = InStockText

\* What the first Product offer naming OutOfStock or InStock says, "none"
\* when there is no such offer.
FirstJsonLdSignal(page) ==
  LET named == {i \in 1..Len(page.jsonld) :
                  /\ page.jsonld[i].parse = "dict" /\ page.jsonld[i].type = "Product"
                  /\ page.jsonld[i].offers.t = "dict_str"
                  /\ (HasToken(page.jsonld[i].offers.s, "OutOfStock")
                        \/ HasToken(page.jsonld[i].offers.s, "InStock"))}
  IN  IF named = {} THEN "none"
      ELSE LET i == CHOOSE j \in named : \A k \in named : j <= k
           IN  IF HasToken(page.jsonld[i].offers.s, "OutOfStock") THEN "out" ELSE "in"

\* C19: the highest tier with a signal decides: a JSON-LD offer naming
\* OutOfStock gives 'out of stock' and one naming InStock 'in stock',
\* whatever the sold-out elements and the phrases; without a JSON-LD signal
\* a sold-out element gives 'out of stock', whatever the phrases.
C19_TierPrecedence ==
  Emitted =>
    /\ FirstJsonLdSignal(call.html[1]) = "out" =>
         call.out.value[1].availability = OutOfStockText
    /\ FirstJsonLdSignal(call.html[1]) = "in" =>
         call.out.value[1].availability = InStockText
    /\ (FirstJsonLdSignal(call.html[1]) = "none" /\ call.html[1].soldOut) =>
         call.out.value[1].availability = OutOfStockText

\* The smallest of a non-empty set of numbers.
Least(S) == CHOOSE k \in S : \A m \in S : k <= m

\* C20: when phrases of the table occur in the product-context elements and
\* no higher tier has a signal, the status is that of the first phrase of
\* the table that occurs.
C20_FirstPhraseWins ==
  (/\ Emitted
   /\ FirstJsonLdSignal(call.html[1]) = "none"
   /\ ~call.html[1].soldOut
   /\ PhrasesFound(call.html[1]) # {}) =>
    call.out.value[1].availability =
      stock_phrases[Least(PhrasesFound(call.html[1]))].status

\* The tier of a candidate, by the source the code notes with it.
TierOf(source) ==
  CASE source = "og:image" -> 1
    [] source = "twitter:image" -> 2
    [] source = "json-ld" -> 3
    [] source \in {"selector", "data-src"} -> 4
    [] OTHER -> 5

\* The image links the highest tier with a candidate can give: its
\* candidates, made absolute and HTTPS.
FirstTierImages(page) ==
  LET cands == ImageCandidates(page)
  IN  {Coerced(Absolutize(cands[i].url)) :
         i \in {j \in 1..Len(cands) : TierOf(cands[j].source) = TierOf(cands[1].source)}}

\* C21: when the page names image candidates, the image_link of the record
\* is a candidate of the highest tier that has one (absolute and HTTPS), or
\* the fallback image; a candidate of a lower tier is never used.
C21_FirstTierDecides ==
  (Emitted /\ ImageCandidates(call.html[1]) # <<>>) =>
    \/ call.out.value[1].image_link \in FirstTierImages(call.html[1])
    \/ call.out.value[1].image_link \in FallbackImages

\* A call of get_fallback_image_for_meta has returned.
FallbackDone == call.fn = "get_fallback_image_for_meta" /\ call.done

\* The validator accepts an https:// URL under this HEAD outcome.
Accepts(head) ==
  \/ head.kind = "RequestException"
  \/ /\ head.kind = "response" /\ head.status = 200
     /\ StartsWith(Lower(head.ctype), <<"image", "/">>)

\* The options whose HEAD request, were they tried one after the other,
\* would be accepted.
AcceptedOptions == {i \in 1..Len(FallbackOptions) : Accepts(HeadAt(tape, i))}

\* C22: the result is the first option in listed order that validates, and
\* no HEAD request is made for a later one; when none validates it is the
\* final placeholder, after one request per option and none for the
\* placeholder; the result always begins with https://.
C22_FallbackInOrder ==
  FallbackDone =>
    /\ StartsWith(call.out.url, HttpsPrefix)
    /\ IF AcceptedOptions = {}
         THEN /\ call.out.url = FinalFallback
              /\ call.out.used = Len(FallbackOptions)
         ELSE /\ call.out.url = FallbackOptions[Least(AcceptedOptions)]
              /\ call.out.used = Least(AcceptedOptions)

\* C22 witness: the first two options failed, the third validated and was
\* returned after three requests.
C22_Witness ==
  /\ FallbackDone
  /\ AcceptedOptions = {3}
  /\ call.out.url = FallbackOptions[3]
  /\ call.out.used = 3

\* C23: every GET but the first of a call is preceded by one wait, the
\* wait is drawn from a range that begins at the base delay or above, and
\* the range of each wait lies higher than that of the wait before it.
C23_DelayGrows ==
  /\ Len(sleeps) = (IF gets > 0 THEN gets - 1 ELSE 0)
  /\ \A k \in 1..Len(sleeps) :
       /\ sleeps[k].before = k + 1
       /\ sleeps[k].lo >= DefaultDelay
       /\ sleeps[k].hi > sleeps[k].lo
  /\ \A k \in 1..(Len(sleeps) - 1) :
       /\ sleeps[k + 1].lo > sleeps[k].lo
       /\ sleeps[k + 1].hi > sleeps[k].hi

\* C24: the inter-request delay is slept before the fetch of every URL of
\* the manifest but the very first, the first URL of a later batch
\* included.
C24_DelayBetweenFetches ==
  \A k \in 1..Len(product_attempts) :
    /\ product_attempts[k].number = k
    /\ product_attempts[k].delayed = (k > 1)

\* a is b with some of its items left out, the others in their order.
RECURSIVE IsSubsequence(_, _)
IsSubsequence(a, b) ==
  IF a = <<>> THEN TRUE
  ELSE IF b = <<>> THEN FALSE
  ELSE IF Head(a) = Head(b) THEN IsSubsequence(Tail(a), Tail(b))
  ELSE IsSubsequence(a, Tail(b))

\* One step of the run, seen from the result list: the records it held stay
\* at their places with all their fields but image_link, at most one record
\* is added at the end, and an image_link changes only in the step of
\* generate_meta_xml_feed, after generate_csv_feed ran and the Google
\* document was written.
RecordsKept ==
  /\ Len(products') \in {Len(products), Len(products) + 1}
  /\ \A i \in 1..Len(products) :
       /\ products'[i] = [products[i] EXCEPT !.image_link = products'[i].image_link]
       /\ products'[i].image_link # products[i].image_link =>
            /\ pc = "generate_meta_xml_feed"
            /\ "google_csv" \in attempted
            /\ feeds["google_csv"].state = "written" \/ ioFailed
            /\ feeds["google_xml"].state = "written"

\* C25: the result list is append-only and its records keep every field
\* but image_link, which only the Meta feed generation rewrites, after the
\* Google feeds; the list holds the records of manifest URLs in manifest
\* order, at most one for each entry of the manifest.
C25_RecordLifecycle ==
  /\ [][RecordsKept]_vars
  /\ [](/\ Len(products) <= Len(product_attempts)
        /\ IsSubsequence([i \in 1..Len(products) |-> products[i].link],
                         [k \in 1..Len(product_attempts) |-> product_attempts[k].link])
        /\ IsSubsequence([k \in 1..Len(product_attempts) |-> product_attempts[k].link],
                         product_links))

\* C25 witness: the Meta document was written of two records, and a record
\* of the result list now has another image_link than the one the Google
\* CSV was written with, all its other fields being the same.
C25_Witness ==
  /\ feeds["google_csv"].state = "written"
  /\ feeds["meta_xml"].state = "written"
  /\ Len(products) = 2
  /\ Len(feeds["google_csv"].rows) = 2
  /\ \E i \in 1..2 :
       /\ products[i].image_link # feeds["google_csv"].rows[i].image_link
       /\ products[i] =
            [feeds["google_csv"].rows[i] EXCEPT !.image_link = products[i].image_link]

\* get_page_content returns a response for the URL: the site fails fewer
\* GETs than the fetcher makes.
Answered(u) == origin[u].fails < max_retries

\* The entry says that a record was extracted.
SaysExtracted(entry) == entry.extraction = "extracted"

\* C26: when main has returned from a run over a non-empty manifest, the
\* trace holds one entry per manifest URL, in order; the entry says
\* 'successful access' exactly when the fetcher returned a response and
\* 'failed to access' exactly when it exhausted its retries; an entry of a
\* fetched URL has one extraction outcome, the others none; and the records
\* are those of the entries that say extracted.
C26_TracePerUrl ==
  (pc = "done" /\ product_links # <<>>) =>
    /\ AttemptedLinks = product_links
    /\ \A k \in 1..Len(product_attempts) :
         /\ product_attempts[k].access \in {"ok", "failed"}
         /\ product_attempts[k].access = "ok" <=> Answered(product_attempts[k].link)
         /\ product_attempts[k].access = "ok" =>
              product_attempts[k].extraction \in {"extracted", "failed"}
         /\ product_attempts[k].access = "failed" => product_attempts[k].extraction = ""
    /\ [i \in 1..Len(products) |-> products[i].link] =
         [i \in 1..Len(SelectSeq(product_attempts, SaysExtracted)) |->
            SelectSeq(product_attempts, SaysExtracted)[i].link]

====
